---- MODULE Spec2Model ----
(***************************************************************************)
(* just-do-it: the interactive front-end of the `just` task runner.        *)
(* The model follows the latest revision of the program                    *)
(* (src/unnamed/part_000, part_001 and src/config.go): the bubbletea       *)
(* Update function as one action per message, the generation goroutine     *)
(* and its channel, and the commands in flight between them.               *)
(*                                                                         *)
(* A Go string is a sequence of one-character strings (a Text), so that    *)
(* concatenation, insertion and splitting are computed, not assumed.       *)
(* A Go pointer or optional value is a sequence of length 0 (nil) or 1.    *)
(* Indices are 1-based; Go index i is i+1 here, except m.focusIndex and     *)
(* m.providerIndex, which keep Go's values.                                *)
(*                                                                         *)
(* Spec is the whole program. SpecArgs starts in a filled-in form and      *)
(* SpecFilter in the list of any catalog, to exercise the argument         *)
(* building and the list's filter over more inputs than Spec types.        *)
(* SpecForm is the forms with the file picker, SpecStream the generation   *)
(* with fair scheduling, SpecConfig the AI settings with a config file     *)
(* that may fail to load.                                                  *)
(***************************************************************************)
EXTENDS Integers, Sequences, FiniteSets, TLC, Bags

\* ------------------------------------------------------------------ bounds
\* longest text a form field may hold by typing
MaxLen == 1
\* longest filter text typed in the task list
MaxFilter == 1
\* most chunks one generation streams
MaxChunks == 2
\* capacity of the stream channel (100 in the program), scaled down
ChanCap == 1
\* most filter results in flight at once
MaxFilterInFlight == 1
\* most messages handled between a quit request and the loop's return
MaxQuitWindow == 2
\* most keys pressed in one run
MaxKeys == 5
\* most detail fetches in flight at once
MaxFetches == 2

\* ------------------------------------------------------------------- texts
JUST == <<"j", "u", "s", "t">>
SH == <<"s", "h">>
DASH_C == <<"-", "c">>
AI_COMMAND == <<"A", "I", " ", "C", "o", "m", "m", "a", "n", "d">>
COMMAND == <<"c", "o", "m", "m", "a", "n", "d">>
RUN_PROMPT == <<"R", "u", "n", ":", " ">>
KEY_PLACEHOLDER == <<"K", "e", "y", ".", ".", ".">>
MODEL_PLACEHOLDER ==
    <<"M", "o", "d", "e", "l", " ", "I", "D", " ", "(", "e", ".", "g", ".", " ", "g",
      "e", "m", "i", "n", "i", "-", "2", ".", "0", "-", "f", "l", "a", "s", "h", ")">>
\* the prompt of textinput.New()
DEFAULT_PROMPT == <<">", " ">>
DEFAULT_SUFFIX == <<" ", "(", "d", "e", "f", "a", "u", "l", "t", ")">>

\* the order of bytes that Go's < on strings uses, for the characters used
CHARS == <<" ", "-", "A", "C", "I", "W", "a", "b", "c", "d", "e", "f", "g",
           "h", "i", "l", "m", "n", "o", "r", "s", "t", "u", "x">>

Ord(c) == CHOOSE i \in 1..Len(CHARS) : CHARS[i] = c

RECURSIVE TextLess(_, _)
TextLess(a, b) ==
    IF b = <<>> THEN FALSE
    ELSE IF a = <<>> THEN TRUE
    ELSE IF a[1] # b[1] THEN Ord(a[1]) < Ord(b[1])
    ELSE TextLess(Tail(a), Tail(b))

RECURSIVE Concat(_)
Concat(ts) == IF ts = <<>> THEN <<>> ELSE Head(ts) \o Concat(Tail(ts))

\* unicode.IsSpace, for the characters used
IsSpace(c) == c \in {" ", "\t", "\n"}

\* strings.Fields: the maximal runs of non-space characters, in order
RECURSIVE FieldsFrom(_, _, _)
FieldsFrom(s, i, cur) ==
    IF i > Len(s)
    THEN (IF cur = <<>> THEN <<>> ELSE <<cur>>)
    ELSE IF IsSpace(s[i])
         THEN (IF cur = <<>>
               THEN FieldsFrom(s, i + 1, <<>>)
               ELSE <<cur>> \o FieldsFrom(s, i + 1, <<>>))
         ELSE FieldsFrom(s, i + 1, Append(cur, s[i]))

\* a split at every single space, which keeps the empty tokens between
\* adjacent spaces (strings.Split(s, " "))
RECURSIVE SplitFrom(_, _, _)
SplitFrom(s, i, cur) ==
    IF i > Len(s) THEN <<cur>>
    ELSE IF IsSpace(s[i]) THEN <<cur>> \o SplitFrom(s, i + 1, <<>>)
         ELSE SplitFrom(s, i + 1, Append(cur, s[i]))

FieldsEverySpace(s) == SplitFrom(s, 1, <<>>)

Fields(s) == FieldsFrom(s, 1, <<>>)

\* ----------------------------------------------------------------- recipes
Param(name, default, kind) == [Name |-> name, Default |-> default, Kind |-> kind]

T_build == <<"b", "u", "i", "l", "d">>
T_hello == <<"h", "e", "l", "l", "o">>
T_diff == <<"d", "i", "f", "f">>
T_lint == <<"l", "i", "n", "t">>
T_bench == <<"b", "e", "n", "c", "h">>
T_name == <<"n", "a", "m", "e">>
T_file1 == <<"f", "i", "l", "e", "1">>
T_file2 == <<"f", "i", "l", "e", "2">>
T_files == <<"f", "i", "l", "e", "s">>
T_flags == <<"f", "l", "a", "g", "s">>
T_World == <<"W", "o", "r", "l", "d">>

R_build == [Name |-> T_build, Parameters |-> <<>>]
R_hello == [Name |-> T_hello,
            Parameters |-> <<Param(T_name, <<T_World>>, "singular")>>]
R_diff == [Name |-> T_diff,
           Parameters |-> <<Param(T_file1, <<>>, "singular"),
                            Param(T_file2, <<>>, "singular")>>]
R_lint == [Name |-> T_lint,
           Parameters |-> <<Param(T_files, <<>>, "plus")>>]
R_bench == [Name |-> T_bench,
            Parameters |-> <<Param(T_flags, <<<<"a", " ", " ", "b">>>>, "star")>>]

\* the catalogs a run may load: sets of recipes with distinct names
Catalogs == { {}, {R_build, R_hello}, {R_diff, R_lint}, {R_bench} }

\* the list's entries: the recipes sorted by name, then the AI entry
RecipeItem(name) == [kind |-> "recipe", name |-> name]
AiItem == [kind |-> "ai", name |-> <<>>]

RECURSIVE SortedNames(_)
SortedNames(names) ==
    IF names = {} THEN <<>>
    ELSE LET least == CHOOSE n \in names : \A o \in names \ {n} : TextLess(n, o)
         IN  <<least>> \o SortedNames(names \ {least})

ModelItem(name) == [kind |-> "model", name |-> name]

ItemsOf(rs) ==
    LET names == SortedNames({r.Name : r \in rs})
    IN  [i \in 1..Len(names) |-> RecipeItem(names[i])] \o <<AiItem>>

FilterValue(item) == IF item.kind = "ai" THEN <<>> ELSE item.name

\* -------------------------------------------------------------- fuzzy.Find
\* The matcher of the fuzzy library the program calls: a target matches when
\* the pattern is a subsequence of it; a match scores a bonus for a hit on the
\* first character and for adjacent hits, and a penalty for the characters
\* skipped before the first hit and for every unmatched character; matches
\* are returned by descending score, ties in target order.
RECURSIVE MatchFrom(_, _, _, _)
\* the leftmost positions of pattern p[k..] in s[i..], or <<0>> when none
MatchFrom(p, s, k, i) ==
    IF k > Len(p) THEN <<>>
    ELSE IF i > Len(s) THEN <<0>>
    ELSE IF s[i] = p[k]
         THEN LET rest == MatchFrom(p, s, k + 1, i + 1)
              IN  IF rest = <<0>> THEN <<0>> ELSE <<i>> \o rest
         ELSE MatchFrom(p, s, k, i + 1)

Matches(p, s) == MatchFrom(p, s, 1, 1) # <<0>>

Max(a, b) == IF a > b THEN a ELSE b

RECURSIVE AdjacentBonus(_, _)
AdjacentBonus(pos, k) ==
    IF k > Len(pos) THEN 0
    ELSE (IF pos[k] = pos[k - 1] + 1 THEN 5 ELSE 0) + AdjacentBonus(pos, k + 1)

Score(p, s) ==
    LET pos == MatchFrom(p, s, 1, 1)
    IN  (IF pos[1] = 1 THEN 10 ELSE 0)
        + Max(0 - 5 * (pos[1] - 1), 0 - 15)
        + AdjacentBonus(pos, 2)
        + (Len(pos) - Len(s))

RECURSIVE InsertByScore(_, _, _)
\* stable insertion of match index n into ms, a sequence sorted by score
InsertByScore(ms, n, sc) ==
    IF ms = <<>> THEN <<n>>
    ELSE IF sc[n] > sc[Head(ms)] THEN <<n>> \o ms
         ELSE <<Head(ms)>> \o InsertByScore(Tail(ms), n, sc)

RECURSIVE RankFrom(_, _, _)
RankFrom(hits, sc, k) ==
    IF k > Len(hits) THEN <<>>
    ELSE LET sorted == RankFrom(hits, sc, k + 1)
         IN  IF sorted = <<>> \/ sc[hits[k]] >= sc[Head(sorted)]
             THEN <<hits[k]>> \o sorted
             ELSE <<Head(sorted)>> \o InsertByScore(Tail(sorted), hits[k], sc)

RECURSIVE HitsFrom(_, _, _)
HitsFrom(p, targets, i) ==
    IF i > Len(targets) THEN <<>>
    ELSE (IF Matches(p, targets[i]) THEN <<i>> ELSE <<>>)
         \o HitsFrom(p, targets, i + 1)

\* fuzzy.Find(pattern, data): the indices of the matching targets, ranked
FuzzyFind(p, targets) ==
    IF p = <<>> THEN <<>>
    ELSE LET hits == HitsFrom(p, targets, 1)
             sc == [i \in 1..Len(targets) |->
                       IF Matches(p, targets[i]) THEN Score(p, targets[i]) ELSE 0]
         IN  RankFrom(hits, sc, 1)

\* ------------------------------------------------------------ m.list.Filter
\* the ranks without the closing AI entry when no real task matches
FilterDropsAiOnNoMatch(term, targets) ==
    IF Len(targets) = 0 THEN <<>>
    ELSE LET matches == FuzzyFind(term, SubSeq(targets, 1, Len(targets) - 1))
         IN  IF matches = <<>> THEN <<>> ELSE Append(matches, Len(targets))

\* the custom filter of the task list: the fuzzy ranking of the real targets
\* (all but the last), then the last target, the AI entry
Filter(term, targets) ==
    IF Len(targets) = 0 THEN <<>>
    ELSE LET realTargets == SubSeq(targets, 1, Len(targets) - 1)
             matches == FuzzyFind(term, realTargets)
         IN  Append(matches, Len(targets))

\* the filter of the model list: the fuzzy ranking alone
ModelFilter(term, targets) ==
    IF Len(targets) = 0 THEN <<>> ELSE FuzzyFind(term, targets)

\* ------------------------------------------------------------ bubbles parts
\* textinput.Model: the text, the cursor (characters before it), the focus
NewInput(prompt, placeholder, focus) ==
    [value |-> <<>>, pos |-> 0, focus |-> focus,
     prompt |-> prompt, placeholder |-> placeholder]

\* textinput.SetValue: the text replaced, the cursor at its end
SetValue(t, s) == [t EXCEPT !.value = s, !.pos = Len(s)]

\* textinput.Update with a rune key: a focused input inserts it at the cursor
InputRune(t, c) ==
    IF t.focus
    THEN [t EXCEPT !.value = SubSeq(t.value, 1, t.pos) \o <<c>>
                              \o SubSeq(t.value, t.pos + 1, Len(t.value)),
                   !.pos = t.pos + 1]
    ELSE t

\* list.Model: the items, the filter state and text, the filtered items and
\* the cursor (1 is the first visible item)
NewList(items) ==
    [items |-> items, filterState |-> "unfiltered", filterText |-> <<>>,
     filtered |-> <<>>, cursor |-> 1]

VisibleItems(l) == IF l.filterState # "unfiltered" THEN l.filtered ELSE l.items

\* list.SelectedItem: nil (<<>>) when the cursor is past the visible items
SelectedItem(l) ==
    IF l.cursor > Len(VisibleItems(l)) THEN <<>>
    ELSE <<VisibleItems(l)[l.cursor]>>

SettingFilter(l) == l.filterState = "filtering"

\* list.ResetFilter
ResetFilter(l) ==
    IF l.filterState = "unfiltered" THEN l
    ELSE [l EXCEPT !.filterState = "unfiltered", !.filterText = <<>>,
                   !.filtered = <<>>]

Min(a, b) == IF a < b THEN a ELSE b

\* the end of the list's browsing handler: the cursor kept on a visible item
ClampCursor(l) == [l EXCEPT !.cursor = Max(1, Min(l.cursor, Len(VisibleItems(l))))]

\* list.Update with the "/" key the program injects: filtering starts
StartFilter(l) ==
    IF l.filterState = "filtering" \/ Len(l.items) = 0 THEN l
    ELSE [l EXCEPT !.filterState = "filtering", !.cursor = 1,
                   !.filtered = IF l.filterText = <<>> THEN l.items ELSE l.filtered]

\* list.Update with a key, for the keys `up`, `down`, `tab`, `shift+tab`,
\* `enter`, `esc` and the runes; key is <<name>> or <<"rune", c>>
ListKey(l, key) ==
    IF l.filterState = "filtering"
    THEN CASE key[1] = "rune" -> [l EXCEPT !.filterText = Append(l.filterText, key[2])]
           [] key[1] = "backspace" ->
                [l EXCEPT !.filterText = SubSeq(l.filterText, 1, Len(l.filterText) - 1)]
           [] key[1] = "esc" -> ResetFilter(l)
           [] key[1] \in {"up", "down", "tab", "shift+tab", "enter"} ->
                IF l.filterText = <<>> \/ Len(l.items) = 0 THEN l
                ELSE IF Len(l.filtered) = 0 THEN ResetFilter(l)
                ELSE [l EXCEPT !.filterState = "applied"]
           [] OTHER -> l
    ELSE CASE key[1] = "up" -> ClampCursor([l EXCEPT !.cursor = Max(1, l.cursor - 1)])
           [] key[1] = "down" ->
                ClampCursor([l EXCEPT !.cursor = Min(Len(VisibleItems(l)), l.cursor + 1)])
           [] key[1] = "esc" /\ l.filterState = "applied" -> ClampCursor(ResetFilter(l))
           [] OTHER -> ClampCursor(l)

\* list.Update with a message that is no key: a FilterMatchesMsg replaces the
\* filtered items, any other message only passes the browsing handler
ListMsg(l, msg) ==
    IF msg.type = "filterMatches" THEN [l EXCEPT !.filtered = msg.items]
    ELSE IF l.filterState = "filtering" THEN l
    ELSE ClampCursor(l)

\* the filter values of the list's items, the targets its Filter is given
Targets(l) == [i \in 1..Len(l.items) |-> FilterValue(l.items[i])]

\* the list's filterItems command, run on the list as the key left it, with
\* ranks the result of the list's Filter on the filter text and the targets
FilterItems(l, ranks) ==
    IF l.filterText = <<>> \/ l.filterState = "unfiltered" THEN l.items
    ELSE [i \in 1..Len(ranks) |-> l.items[ranks[i]]]

\* ------------------------------------------------------- strings as bytes
\* A Go string is indexed by byte. Every character of the model is one byte
\* of UTF-8 except E_ACUTE, which is the two bytes C3 A9; a byte that is not
\* part of a well-formed character reads back as the replacement character.
E_ACUTE == "e_acute"
REPLACEMENT == "fffd"

RECURSIVE Encode(_)
Encode(text) ==
    IF text = <<>> THEN <<>>
    ELSE (IF Head(text) = E_ACUTE THEN <<"C3", "A9">> ELSE <<Head(text)>>)
         \o Encode(Tail(text))

\* []rune(s): the characters of a byte string
RECURSIVE Decode(_)
Decode(bytes) ==
    IF bytes = <<>> THEN <<>>
    ELSE IF Len(bytes) >= 2 /\ bytes[1] = "C3" /\ bytes[2] = "A9"
    THEN <<E_ACUTE>> \o Decode(SubSeq(bytes, 3, Len(bytes)))
    ELSE IF bytes[1] \in {"C3", "A9"}
    THEN <<REPLACEMENT>> \o Decode(Tail(bytes))
    ELSE <<bytes[1]>> \o Decode(Tail(bytes))

\* strings.TrimSpace
RECURSIVE TrimLeft(_)
TrimLeft(text) ==
    IF text # <<>> /\ IsSpace(Head(text)) THEN TrimLeft(Tail(text)) ELSE text

RECURSIVE TrimRight(_)
TrimRight(text) ==
    IF text # <<>> /\ IsSpace(text[Len(text)])
    THEN TrimRight(SubSeq(text, 1, Len(text) - 1)) ELSE text

TrimSpace(text) == TrimRight(TrimLeft(text))

\* a paste that puts the text at the end of the field, wherever the cursor is
PasteAtEnd(t, msg) ==
    [t EXCEPT !.value = t.value \o msg, !.pos = Len(t.value) + Len(msg)]

\* the pasteMsg handler on the focused field: the value is cut at the cursor
\* (a character position used as a byte index), the text goes in between, and
\* the cursor is set that many bytes further, no further than the end
PasteInto(t, msg) ==
    LET val == Encode(t.value)
        cursor == t.pos
        newVal == IF cursor >= Len(val) THEN val \o Encode(msg)
                  ELSE SubSeq(val, 1, cursor) \o Encode(msg)
                       \o SubSeq(val, cursor + 1, Len(val))
    IN  [t EXCEPT !.value = Decode(newVal),
                  !.pos = Min(cursor + Len(Encode(msg)), Len(Decode(newVal)))]

\* textinput.Update with the key left: the cursor of a focused input goes back
InputLeft(t) == IF t.focus THEN [t EXCEPT !.pos = Max(0, t.pos - 1)] ELSE t

\* ------------------------------------------------------------------- state
VARIABLES
    m,            \* the bubbletea model (type model), the only UI state
    ch,           \* the channel of the latest generation and its goroutine
    orphans,      \* goroutines of earlier generations that still run
    pending,      \* commands started and messages sent, not yet handled
    running,      \* the event loop of tea.Program.Run has not returned
    env,          \* GOOGLE_API_KEY and OPENAI_API_KEY
    cfg,          \* the config file
    formFrom,     \* history: what opened the form, "task" or "ai"
    interrupted,  \* history: ctrl+c has been handled
    late,         \* messages handled since a QuitMsg was first in flight
    keys,         \* key messages handled
    fetches,      \* the updateViewportContent commands in flight, a bag of names
    main,         \* func main after p.Run: where it is, and the image it has exec'ed
    readable      \* the config file can be read and parsed at this moment

vars == <<m, ch, orphans, pending, running, env, cfg, formFrom, interrupted, late, keys,
          fetches, main, readable>>

\* the characters typed in the list, in the forms and in the model list
ListRunes == {"b", "l", "j", "q"}
FormRunes == {"a"}
ModelRunes == {"a"}

\* what a generation may stream, and what a model listing may return
ChunkAt(i) == IF i % 2 = 1 THEN <<"l", "s", " ">> ELSE <<"-", "l", "a">>
M_a == <<"m", "a">>
M_b == <<"m", "b">>
ModelLists == {<<>>, <<M_a, M_b>>}
K_env == <<"e">>
NoEnv == [google |-> <<>>, openai |-> <<>>]
GoogleEnv == [google |-> K_env, openai |-> <<>>]
OpenAIEnv == [google |-> <<>>, openai |-> K_env]

\* what the detail pane holds: nothing yet, the hint of the AI entry, or the
\* output of the fetch for a task
AI_HINT == <<"h", "i", "n", "t">>
NoContent == [kind |-> "none", text |-> <<>>]
HintContent == [kind |-> "hint", text |-> AI_HINT]
TaskContent(name) == [kind |-> "task", text |-> name]

\* func main: in p.Run, gone into the image syscall.Exec has loaded, or exited
InRun == [pc |-> "run", code |-> 0, binary |-> <<>>, argv |-> <<>>]
Exited(code) == [pc |-> "exit", code |-> code, binary |-> <<>>, argv |-> <<>>]

EmptyConfig ==
    [GoogleAPIKey |-> <<>>, OpenAIAPIKey |-> <<>>,
     GoogleModel |-> <<>>, OpenAIModel |-> <<>>]

\* a config file an earlier run has saved a Google key to
K_file == <<"f">>
GoogleFileConfig == [EmptyConfig EXCEPT !.GoogleAPIKey = K_file]

\* LoadConfig as its callers use it: the content of the file, or the empty
\* Config when the file cannot be read or parsed (`cfg, _ := LoadConfig()`,
\* `if cfg == nil { cfg = &Config{} }`)
LoadConfig == IF readable THEN cfg ELSE EmptyConfig

\* the worlds a run may start in: a catalog, an environment and a config file
Worlds ==
    {<<rs, NoEnv, EmptyConfig>> : rs \in Catalogs}
    \cup {<<{}, GoogleEnv, EmptyConfig>>, <<{R_build, R_hello}, GoogleEnv, EmptyConfig>>,
          <<{}, OpenAIEnv, EmptyConfig>>, <<{}, GoogleEnv, GoogleFileConfig>>}

\* a channel with the goroutine that writes it: pc is where the goroutine is,
\* buf the buffered messages, waits the waitForStream commands blocked on it,
\* sent (history) every message the goroutine has sent
NoChan ==
    [pc |-> "closed", buf |-> <<>>, waits |-> 0, sent |-> <<>>,
     errk |-> "", prompt |-> <<>>, provider |-> ""]

ChunkMsg(s) == [kind |-> "chunk", chunk |-> s, err |-> ""]
ErrMsg(e) == [kind |-> "err", chunk |-> <<>>, err |-> e]
DoneMsg == [kind |-> "done", chunk |-> <<>>, err |-> ""]

QuitMsg == [type |-> "quit"]

\* main: the model before tea.NewProgram(m).Run()
Init ==
    /\ \E w \in Worlds :
          /\ env = w[2]
          /\ cfg = w[3]
          /\ m = [list |-> NewList(ItemsOf(w[1])),
                  inputs |-> <<>>,
                  modelList |-> NewList(<<>>),
                  focusIndex |-> 0,
                  providerIndex |-> 0,
                  state |-> "viewList",
                  recipes |-> w[1],
                  selectedRecipe |-> <<>>,
                  err |-> "",
                  finalCmd |-> <<>>,
                  aiPrompt |-> <<>>,
                  streamContent |-> <<>>,
                  viewport |-> NoContent]
    /\ ch = NoChan
    /\ orphans = {}
    /\ pending = {}
    /\ running = TRUE
    /\ formFrom = "none"
    /\ interrupted = FALSE
    /\ late = 0
    /\ keys = 0
    /\ fetches = EmptyBag
    /\ main = InRun
    /\ readable = TRUE

\* `return m, tea.Quit`: the QuitMsg is sent to the loop like any message
Quit == pending' = pending \cup {QuitMsg}

\* the loop takes the next message: until a QuitMsg is taken it handles what
\* arrives, also messages that arrive after the QuitMsg was sent
Handling == running /\ (QuitMsg \in pending => late < MaxQuitWindow)
Handled == late' = IF QuitMsg \in pending THEN late + 1 ELSE late

\* the same for a key message, of which a run presses at most MaxKeys
\* tea.ExecProcess(fzf): the file picker owns the terminal until it exits
PickerCmd == [type |-> "picker"]
PasteMsg(text) == [type |-> "paste", text |-> text]

\* a key is read: the budget has room and no picker holds the terminal
KeyHandling == Handling /\ keys < MaxKeys /\ PickerCmd \notin pending
KeyHandled == Handled /\ keys' = keys + 1

\* m.recipes[name]: the recipe of that name, or the zero Recipe
RecipeNamed(rs, name) ==
    IF \E r \in rs : r.Name = name
    THEN CHOOSE r \in rs : r.Name = name
    ELSE [Name |-> <<>>, Parameters |-> <<>>]

\* the fields of a form with the prompts left at the default
FieldsForDefaultPrompt(params) ==
    [i \in 1..Len(params) |-> NewInput(DEFAULT_PROMPT, <<>>, i = 1)]

\* the fields of the form of a recipe: one per parameter, the first focused
FieldsFor(params) ==
    [i \in 1..Len(params) |->
        NewInput(params[i].Name \o <<":", " ">>,
                 IF params[i].Default # <<>>
                 THEN params[i].Default[1] \o DEFAULT_SUFFIX
                 ELSE <<>>,
                 i = 1)]

\* ------------------------------------------------- the form's final command
\* the argument of one field with the declared default left unused
ArgsOfFieldNoDefault(val0, p) ==
    IF p.Kind = "plus" \/ p.Kind = "star" THEN Fields(val0) ELSE <<val0>>

\* the argument of one field: the default for an empty value, split when the
\* parameter is variadic
ArgsOfField(val0, p) ==
    LET val == IF val0 = <<>> /\ p.Default # <<>> THEN p.Default[1] ELSE val0
    IN  IF p.Kind = "plus" \/ p.Kind = "star" THEN Fields(val) ELSE <<val>>

RECURSIVE ArgsFrom(_, _, _)
ArgsFrom(ins, params, i) ==
    IF i > Len(ins) THEN <<>>
    ELSE ArgsOfField(ins[i].value, params[i]) \o ArgsFrom(ins, params, i + 1)

RECURSIVE ArgsBackFrom(_, _, _)
ArgsBackFrom(ins, params, i) ==
    IF i < 1 THEN <<>>
    ELSE ArgsOfField(ins[i].value, params[i]) \o ArgsBackFrom(ins, params, i - 1)

\* the arguments with the fields taken last to first
BuildArgsReversed(ins, params) == ArgsBackFrom(ins, params, Len(ins))

\* the loop over m.inputs: the arguments of the fields, first to last
BuildArgs(ins, params) == ArgsFrom(ins, params, 1)

\* the command with the runner prefix whatever the recipe
FinalCmdAlwaysJust(recipe, args) == <<JUST, recipe.Name>> \o args

\* m.finalCmd at submit: the shell wrapper for the AI command, else the
\* runner, the task name and the arguments
FinalCmdOf(recipe, args) ==
    IF recipe.Name = AI_COMMAND
    THEN <<SH, DASH_C, args[1]>>
    ELSE <<JUST, recipe.Name>> \o args

\* the command with the runner left out
TaskCmdBare(name) == <<name>>

\* m.finalCmd of a task without parameters
TaskCmd(name) == <<JUST, name>>

\* the chunk put before the text received so far
PrependChunk(content, chunk) == chunk \o content

\* m.streamContent += msg.chunk
AppendChunk(content, chunk) == content \o chunk

\* main after Run has returned: the command handed to syscall.Exec, if any
Handoff == IF ~running /\ Len(m.finalCmd) > 0 THEN <<m.finalCmd>> ELSE <<>>

\* exec.LookPath: the path of a program found on the search path
LookPath(name) == <<"/">> \o name

\* the image loaded with the arguments without the command's name
ExecWithoutName(binary, cmd) ==
    [pc |-> "replaced", code |-> 0, binary |-> binary, argv |-> Tail(cmd)]

\* syscall.Exec(binary, m.finalCmd, env): the process is the new image
Exec(binary, cmd) ==
    [pc |-> "replaced", code |-> 0, binary |-> binary, argv |-> cmd]

\* ------------------------------------------------------------ Update: keys
\* a key message that leaves the error banner as it is
KKeepsError == m

\* every key message first clears the error banner
K == [m EXCEPT !.err = ""]

\* the end of Update in viewList: the list has handled the message and the
\* shared AI prompt is set to the list's filter text
ListTail(mm, l) ==
    [mm EXCEPT !.list = l,
               !.aiPrompt = l.filterText,
               !.viewport = IF SelectedItem(l) = <<AiItem>> THEN HintContent
                            ELSE mm.viewport]

\* the bag of k fetches of the details of the task called name
Copies(name, k) == IF k = 0 THEN EmptyBag ELSE [n \in {name} |-> k]

\* the fetches of the end of Update in viewList with no fetch for a resize
TailFetchesOnChangeOnly(prev, l, resize) ==
    LET was == SelectedItem(prev)
        curr == SelectedItem(l)
    IN  IF curr # <<>> /\ curr[1].kind = "recipe"
        THEN Copies(curr[1].name,
                    IF was = <<>> \/ FilterValue(was[1]) # curr[1].name THEN 1 ELSE 0)
        ELSE EmptyBag

\* the fetches the end of Update in viewList starts: prev is the list before
\* it handled the message, l the list after; one fetch when the selected
\* task's name is not the name selected before, one more for a resize
TailFetches(prev, l, resize) ==
    LET was == SelectedItem(prev)
        curr == SelectedItem(l)
    IN  IF curr # <<>> /\ curr[1].kind = "recipe"
        THEN Copies(curr[1].name,
                    (IF was = <<>> \/ FilterValue(was[1]) # curr[1].name THEN 1 ELSE 0)
                    + (IF resize THEN 1 ELSE 0))
        ELSE EmptyBag

\* a message that is no key reaches the end of Update: in viewList the list
\* handles it and the tail runs, in viewModelSelect the model list handles it
AfterMsg(mm, msg) ==
    IF mm.state = "viewList" THEN ListTail(mm, ListMsg(mm.list, msg))
    ELSE IF mm.state = "viewModelSelect"
    THEN [mm EXCEPT !.modelList = ListMsg(mm.modelList, msg)]
    ELSE mm

\* fetches has room for the fetches a handler starts
FetchRoom == BagCardinality(fetches') <= MaxFetches

FilterMatchesMsg(items) == [type |-> "filterMatches", items |-> items]
FilterMsgs == {p \in pending : p.type = "filterMatches"}

\* ctrl+c, in every state
KeyCtrlC ==
    /\ KeyHandling /\ KeyHandled
    /\ m' = K
    /\ interrupted' = TRUE
    /\ Quit
    /\ UNCHANGED <<ch, orphans, running, env, cfg, formFrom, fetches, main, readable>>

\* a key other than ctrl+c in viewGenerating: no branch takes it
KeyGenerating ==
    /\ KeyHandling /\ KeyHandled /\ m.state = "viewGenerating"
    /\ m' = K
    /\ UNCHANGED <<ch, orphans, pending, running, env, cfg, formFrom, interrupted, fetches, main, readable>>

\* ctrl+p in viewList
CtrlPList ==
    /\ KeyHandling /\ KeyHandled /\ m.state = "viewList"
    /\ m' = [K EXCEPT !.state = "viewProviderSelect", !.providerIndex = 0]
    /\ UNCHANGED <<ch, orphans, pending, running, env, cfg, formFrom, interrupted, fetches, main, readable>>

\* enter in viewList on the AI entry: a generation starts on a new channel
\* a generation started on top of the text accumulated before
StartGenerationKeepsContent(mm) == [mm EXCEPT !.state = "viewGenerating"]

\* the model when a generation starts: `m.state = viewGenerating`,
\* `m.streamContent = ""`
StartGeneration(mm) == [mm EXCEPT !.state = "viewGenerating", !.streamContent = <<>>]

EnterListAi ==
    /\ KeyHandling /\ KeyHandled /\ m.state = "viewList"
    /\ SelectedItem(m.list) = <<AiItem>>
    /\ m' = StartGeneration(K)
    /\ ch' = [pc |-> "start", buf |-> <<>>, waits |-> 1, sent |-> <<>>,
              errk |-> "", prompt |-> m.aiPrompt, provider |-> ""]
    /\ orphans' = IF ch.pc # "closed" THEN orphans \cup {ch} ELSE orphans
    /\ UNCHANGED <<pending, running, env, cfg, formFrom, interrupted, fetches, main, readable>>

SelectedRecipeItem ==
    /\ SelectedItem(m.list) # <<>>
    /\ SelectedItem(m.list)[1].kind = "recipe"

\* enter in viewList on a task with parameters: the form opens
EnterListTaskParams ==
    /\ KeyHandling /\ KeyHandled /\ m.state = "viewList"
    /\ SelectedRecipeItem
    /\ LET recipe == RecipeNamed(m.recipes, SelectedItem(m.list)[1].name)
       IN  /\ Len(recipe.Parameters) > 0
           /\ m' = [K EXCEPT !.selectedRecipe = <<recipe>>,
                             !.state = "viewInput",
                             !.inputs = FieldsFor(recipe.Parameters),
                             !.focusIndex = 0]
    /\ formFrom' = "task"
    /\ UNCHANGED <<ch, orphans, pending, running, env, cfg, interrupted, fetches, main, readable>>

\* enter in viewList on a task without parameters: the command is set
EnterListTaskNoParams ==
    /\ KeyHandling /\ KeyHandled /\ m.state = "viewList"
    /\ SelectedRecipeItem
    /\ LET name == SelectedItem(m.list)[1].name
           recipe == RecipeNamed(m.recipes, name)
       IN  /\ Len(recipe.Parameters) = 0
           /\ m' = [K EXCEPT !.selectedRecipe = <<recipe>>,
                             !.finalCmd = TaskCmd(name)]
    /\ Quit
    /\ UNCHANGED <<ch, orphans, running, env, cfg, formFrom, interrupted, fetches, main, readable>>

\* q in viewList while the filter is not being edited
QList ==
    /\ KeyHandling /\ KeyHandled /\ m.state = "viewList"
    /\ ~SettingFilter(m.list)
    /\ m' = K
    /\ Quit
    /\ UNCHANGED <<ch, orphans, running, env, cfg, formFrom, interrupted, fetches, main, readable>>

\* esc in viewList: the filter being edited is reset, else the program quits
EscList ==
    /\ KeyHandling /\ KeyHandled /\ m.state = "viewList"
    /\ IF SettingFilter(m.list)
       THEN /\ m' = [K EXCEPT !.list = ResetFilter(m.list)]
            /\ UNCHANGED pending
       ELSE /\ m' = K
            /\ Quit
    /\ UNCHANGED <<ch, orphans, running, env, cfg, formFrom, interrupted, fetches, main, readable>>

\* a rune given to the list as it is, with no "/" before it
NoSlash(l) == l

\* a rune while the filter is not edited: the list is first given the key "/"
InjectSlash(l) == IF ~SettingFilter(l) THEN StartFilter(l) ELSE l

\* a rune in viewList: filtering starts if it had not, the rune joins the
\* filter text and the list's filter command is started
RuneListKey(c) ==
    /\ KeyHandling /\ KeyHandled /\ m.state = "viewList"
    /\ c = "q" => SettingFilter(m.list)
    /\ Len(m.list.filterText) < MaxFilter
    /\ Cardinality(FilterMsgs) < MaxFilterInFlight
    /\ LET l1 == InjectSlash(m.list)
           l2 == ListKey(l1, <<"rune", c>>)
       IN  /\ m' = ListTail(K, l2)
           /\ pending' = pending \cup
                 {FilterMatchesMsg(FilterItems(l2, Filter(l2.filterText, Targets(l2))))}
           /\ fetches' = fetches (+) TailFetches(l1, l2, FALSE)
           /\ FetchRoom
    /\ UNCHANGED <<ch, orphans, running, env, cfg, formFrom, interrupted, main, readable>>

RuneList == \E c \in ListRunes : RuneListKey(c)

\* the rune k in viewList
KList == RuneListKey("k")

\* backspace in viewList: no case of the key switch; the list handles it, and
\* while the filter is edited its last character goes and the filter command
\* is started
BackspaceList ==
    /\ KeyHandling /\ KeyHandled /\ m.state = "viewList"
    /\ LET l2 == ListKey(m.list, <<"backspace">>)
       IN  /\ m' = ListTail(K, l2)
           /\ pending' = IF l2.filterText # m.list.filterText
                         THEN pending \cup
                              {FilterMatchesMsg(FilterItems(l2, Filter(l2.filterText, Targets(l2))))}
                         ELSE pending
           /\ l2.filterText # m.list.filterText => Cardinality(FilterMsgs) < MaxFilterInFlight
           /\ fetches' = fetches (+) TailFetches(m.list, l2, FALSE)
           /\ FetchRoom
    /\ UNCHANGED <<ch, orphans, running, env, cfg, formFrom, interrupted, main, readable>>

\* up, down, tab, shift+tab in viewList: the list handles them
NavList ==
    /\ KeyHandling /\ KeyHandled /\ m.state = "viewList"
    /\ \E k \in {"up", "down", "tab", "shift+tab"} :
          /\ m' = ListTail(K, ListKey(m.list, <<k>>))
          /\ fetches' = fetches (+) TailFetches(m.list, ListKey(m.list, <<k>>), FALSE)
          /\ FetchRoom
    /\ UNCHANGED <<ch, orphans, pending, running, env, cfg, formFrom, interrupted, main, readable>>

InFormState ==
    m.state \in {"viewInput", "viewApiKeyInput", "viewProviderSelect", "viewModelInput"}

\* a return to the list that keeps the fields of the form
BackToListKeepsFields(mm) == [mm EXCEPT !.state = "viewList"]

\* esc in a form state: the state is viewList and the fields are dropped
BackToList(mm) == [mm EXCEPT !.state = "viewList", !.inputs = <<>>]

\* esc in a form state
EscForm ==
    /\ KeyHandling /\ KeyHandled /\ InFormState
    /\ m' = BackToList(K)
    /\ UNCHANGED <<ch, orphans, pending, running, env, cfg, formFrom, interrupted, fetches, main, readable>>

\* a focus index that stops at the first and the last field
MoveFocusNoWrap(focus, n, dir) ==
    LET f == focus + dir
    IN  IF f > n - 1 THEN n - 1 ELSE IF f < 0 THEN 0 ELSE f

\* the focus index after tab/down (dir = 1) or shift+tab/up (dir = -1)
MoveFocus(focus, n, dir) ==
    LET f == focus + dir
    IN  IF f > n - 1 THEN 0 ELSE IF f < 0 THEN n - 1 ELSE f

FocusOnly(ins, focus) == [i \in 1..Len(ins) |-> [ins[i] EXCEPT !.focus = (i = focus + 1)]]

\* tab, shift+tab, up, down in a form state
NavFormKey(k) ==
    /\ KeyHandling /\ KeyHandled /\ InFormState
    /\ IF m.state \in {"viewApiKeyInput", "viewModelInput"}
       THEN m' = K
       ELSE IF m.state = "viewProviderSelect"
       THEN m' = [K EXCEPT !.providerIndex =
                      IF k = "up" THEN Max(0, m.providerIndex - 1)
                      ELSE IF k = "down" THEN Min(1, m.providerIndex + 1)
                      ELSE m.providerIndex]
       ELSE LET f == MoveFocus(m.focusIndex, Len(m.inputs),
                               IF k \in {"up", "shift+tab"} THEN 0 - 1 ELSE 1)
            IN  m' = [K EXCEPT !.focusIndex = f, !.inputs = FocusOnly(m.inputs, f)]
    /\ UNCHANGED <<ch, orphans, pending, running, env, cfg, formFrom, interrupted, fetches, main, readable>>

NavForm == \E k \in {"tab", "shift+tab", "up", "down"} : NavFormKey(k)

\* a rune in a form state: every input handles it, the focused one takes it
RuneForm ==
    /\ KeyHandling /\ KeyHandled /\ InFormState
    /\ \A i \in 1..Len(m.inputs) : m.inputs[i].focus => Len(m.inputs[i].value) < MaxLen
    /\ \E c \in FormRunes :
          m' = [K EXCEPT !.inputs = [i \in 1..Len(m.inputs) |-> InputRune(m.inputs[i], c)]]
    /\ UNCHANGED <<ch, orphans, pending, running, env, cfg, formFrom, interrupted, fetches, main, readable>>

\* left in a form state: no case of the key switch, the inputs handle it
LeftForm ==
    /\ KeyHandling /\ KeyHandled /\ InFormState
    /\ m' = [K EXCEPT !.inputs = [i \in 1..Len(m.inputs) |-> InputLeft(m.inputs[i])]]
    /\ UNCHANGED <<ch, orphans, pending, running, env, cfg, formFrom, interrupted, fetches, main, readable>>

\* ctrl+f in a form state: the file picker is started
CtrlFForm ==
    /\ KeyHandling /\ KeyHandled /\ InFormState
    /\ m' = K
    /\ pending' = pending \cup {PickerCmd}
    /\ UNCHANGED <<ch, orphans, running, env, cfg, formFrom, interrupted, fetches, main, readable>>

\* what the picker may print before it exits cleanly
PickerOutputs == {<<"\n">>, <<"b", "\n">>, <<E_ACUTE, "\n">>}

\* the picker exits: with an error no message follows, else a pasteMsg with
\* its trimmed output
PickerExit ==
    /\ running
    /\ PickerCmd \in pending
    /\ \/ pending' = pending \ {PickerCmd}
       \/ \E out \in PickerOutputs :
             pending' = (pending \ {PickerCmd}) \cup {PasteMsg(TrimSpace(out))}
    /\ UNCHANGED <<keys, late, m, ch, orphans, running, env, cfg, formFrom, interrupted,
                   fetches, main, readable>>

\* a pasteMsg that always goes into the first field
PastedFirstField(mm, text) ==
    IF mm.state \in {"viewInput", "viewApiKeyInput", "viewModelInput"} /\ Len(text) > 0
    THEN [mm EXCEPT !.inputs[1] = PasteInto(@, text)]
    ELSE mm

\* the model after a pasteMsg: in the states with text fields a non-empty
\* text goes into the field at the focus index
Pasted(mm, text) ==
    IF mm.state \in {"viewInput", "viewApiKeyInput", "viewModelInput"} /\ Len(text) > 0
    THEN [mm EXCEPT !.inputs[mm.focusIndex + 1] = PasteInto(@, text)]
    ELSE mm

\* a pasteMsg
Paste ==
    /\ Handling /\ Handled
    /\ \E msg \in {p \in pending : p.type = "paste"} :
          /\ pending' = pending \ {msg}
          /\ m' = AfterMsg(Pasted(m, msg.text), msg)
          /\ fetches' = IF m.state = "viewList"
                        THEN fetches (+) TailFetches(m.list, ListMsg(m.list, msg), FALSE)
                        ELSE fetches
          /\ FetchRoom
    /\ UNCHANGED <<keys, ch, orphans, running, env, cfg, formFrom, interrupted, main, readable>>

ListModelsCmd(provider, key) == [type |-> "listModels", provider |-> provider, key |-> key]

ProviderName == IF m.providerIndex = 1 THEN "openai" ELSE "google"

\* the credential of the first provider whatever provider is highlighted
ProviderKeyOfGoogle ==
    IF LoadConfig.GoogleAPIKey # <<>> THEN LoadConfig.GoogleAPIKey ELSE env.google

\* the credential ProviderSelect resolves: the config file, then the
\* environment variable
ProviderKey ==
    IF m.providerIndex = 0
    THEN (IF LoadConfig.GoogleAPIKey # <<>> THEN LoadConfig.GoogleAPIKey ELSE env.google)
    ELSE (IF LoadConfig.OpenAIAPIKey # <<>> THEN LoadConfig.OpenAIAPIKey ELSE env.openai)

\* enter in viewProviderSelect
EnterProviderSelect ==
    /\ KeyHandling /\ KeyHandled /\ m.state = "viewProviderSelect"
    /\ IF ProviderKey = <<>>
       THEN /\ m' = [K EXCEPT !.state = "viewApiKeyInput",
                              !.inputs = <<NewInput(DEFAULT_PROMPT, KEY_PLACEHOLDER, TRUE)>>,
                              !.focusIndex = 0]
            /\ UNCHANGED pending
       ELSE /\ m' = [K EXCEPT !.state = "viewGenerating"]
            /\ pending' = pending \cup {ListModelsCmd(ProviderName, ProviderKey)}
    /\ UNCHANGED <<ch, orphans, running, env, cfg, formFrom, interrupted, fetches, main, readable>>

\* the config with the key stored for the provider that is not highlighted
WithKeyOfOther(c, key) ==
    IF m.providerIndex = 0 THEN [c EXCEPT !.OpenAIAPIKey = key]
    ELSE [c EXCEPT !.GoogleAPIKey = key]

\* the config with the key of the highlighted provider set
WithKey(c, key) ==
    IF m.providerIndex = 0 THEN [c EXCEPT !.GoogleAPIKey = key]
    ELSE [c EXCEPT !.OpenAIAPIKey = key]

\* enter in viewApiKeyInput: a typed key is saved, then the models are listed
EnterApiKeyInput ==
    /\ KeyHandling /\ KeyHandled /\ m.state = "viewApiKeyInput"
    /\ LET key == m.inputs[1].value
       IN  IF key = <<>>
           THEN /\ m' = K
                /\ UNCHANGED <<pending, cfg>>
           ELSE \E saved \in BOOLEAN :
                   IF ~saved
                   THEN /\ m' = [K EXCEPT !.err = "save"]
                        /\ UNCHANGED <<pending, cfg>>
                   ELSE /\ cfg' = WithKey(LoadConfig, key)
                        /\ m' = [K EXCEPT !.state = "viewGenerating"]
                        /\ pending' = pending \cup {ListModelsCmd(ProviderName, key)}
    /\ UNCHANGED <<ch, orphans, running, env, formFrom, interrupted, fetches, main, readable>>

\* the config with the model of the provider that is not chosen set
WithModelOfOther(c, name) ==
    IF m.providerIndex = 0 THEN [c EXCEPT !.OpenAIModel = name]
    ELSE [c EXCEPT !.GoogleModel = name]

\* the config with the model of the chosen provider set
WithModel(c, name) ==
    IF m.providerIndex = 0 THEN [c EXCEPT !.GoogleModel = name]
    ELSE [c EXCEPT !.OpenAIModel = name]

\* enter in viewModelInput: a typed model is saved; back to the list
EnterModelInput ==
    /\ KeyHandling /\ KeyHandled /\ m.state = "viewModelInput"
    /\ LET model == m.inputs[1].value
       IN  IF model # <<>>
           THEN \E saved \in BOOLEAN :
                   cfg' = IF saved THEN WithModel(LoadConfig, model) ELSE cfg
           ELSE UNCHANGED cfg
    /\ m' = [K EXCEPT !.state = "viewList", !.inputs = <<>>]
    /\ UNCHANGED <<ch, orphans, pending, running, env, formFrom, interrupted, fetches, main, readable>>

\* the focus taken to the last field of the form
LastField(mm) ==
    [mm EXCEPT !.focusIndex = Len(mm.inputs) - 1,
               !.inputs = FocusOnly(mm.inputs, Len(mm.inputs) - 1)]

\* the focused field blurred and the one after it focused
NextField(mm) ==
    [mm EXCEPT !.focusIndex = mm.focusIndex + 1,
               !.inputs = FocusOnly(mm.inputs, mm.focusIndex + 1)]

\* enter in viewInput before the last field: the focus moves on
EnterInputAdvance ==
    /\ KeyHandling /\ KeyHandled /\ m.state = "viewInput"
    /\ m.focusIndex < Len(m.inputs) - 1
    /\ m' = NextField(K)
    /\ UNCHANGED <<ch, orphans, pending, running, env, cfg, formFrom, interrupted, fetches, main, readable>>

\* enter in viewInput on the last field: the final command is built
EnterInputSubmit ==
    /\ KeyHandling /\ KeyHandled /\ m.state = "viewInput"
    /\ ~(m.focusIndex < Len(m.inputs) - 1)
    /\ LET recipe == m.selectedRecipe[1]
           args == BuildArgs(m.inputs, recipe.Parameters)
       IN  m' = [K EXCEPT !.finalCmd = FinalCmdOf(recipe, args)]
    /\ Quit
    /\ UNCHANGED <<ch, orphans, running, env, cfg, formFrom, interrupted, fetches, main, readable>>

\* a key in viewModelSelect: the model list handles it (a rune starts the
\* filter first), then enter saves the selected model and esc leaves
ModelSelectKey(key) ==
    /\ KeyHandling /\ KeyHandled /\ m.state = "viewModelSelect"
    /\ LET l1 == IF ~SettingFilter(m.modelList) /\ key[1] = "rune"
                 THEN StartFilter(m.modelList) ELSE m.modelList
           l2 == ListKey(l1, key)
           sel == SelectedItem(l2)
       IN  /\ key[1] = "rune" =>
                 /\ Len(l1.filterText) < MaxFilter
                 /\ Cardinality(FilterMsgs) < MaxFilterInFlight
           /\ pending' = IF key[1] = "rune"
                         THEN pending \cup
                              {FilterMatchesMsg(FilterItems(l2,
                                  ModelFilter(l2.filterText, Targets(l2))))}
                         ELSE pending
           /\ IF key[1] = "enter" /\ sel # <<>> /\ sel[1].kind = "model"
              THEN /\ \E saved \in BOOLEAN :
                         cfg' = IF saved THEN WithModel(LoadConfig, sel[1].name) ELSE cfg
                   /\ m' = [K EXCEPT !.modelList = l2, !.state = "viewList"]
              ELSE /\ UNCHANGED cfg
                   /\ m' = [K EXCEPT !.modelList = l2,
                                     !.state = IF key[1] = "esc" THEN "viewList"
                                               ELSE m.state]
    /\ UNCHANGED <<ch, orphans, running, env, formFrom, interrupted, fetches, main, readable>>

\* the keys pressed in viewModelSelect
ModelKeys ==
    {<<"up">>, <<"down">>, <<"tab">>, <<"enter">>, <<"esc">>}
    \cup {<<"rune", c>> : c \in ModelRunes}

KeyModelSelect == \E key \in ModelKeys : ModelSelectKey(key)

\* -------------------------------------------------------- Update: messages
\* a FilterMatchesMsg: the list of the current state takes it
FilterMatches ==
    /\ Handling /\ Handled
    /\ \E msg \in FilterMsgs :
          /\ pending' = pending \ {msg}
          /\ m' = IF m.state = "viewList" THEN ListTail(m, ListMsg(m.list, msg))
                  ELSE IF m.state = "viewModelSelect"
                  THEN [m EXCEPT !.modelList = ListMsg(m.modelList, msg)]
                  ELSE m
          /\ fetches' = IF m.state = "viewList"
                        THEN fetches (+) TailFetches(m.list, ListMsg(m.list, msg), FALSE)
                        ELSE fetches
          /\ FetchRoom
    /\ UNCHANGED <<keys, ch, orphans, running, env, cfg, formFrom, interrupted, main, readable>>

RecipeContentMsg == [type |-> "recipeContent"]
WindowSizeMsg == [type |-> "windowSize"]

\* a detail pane that keeps what it held when a fetch returns
KeepContent(mm, name) == mm

\* viewport.SetContent with the output of the fetch for the task name
SetContent(mm, name) == [mm EXCEPT !.viewport = TaskContent(name)]

\* a recipeContentMsg: a fetch has returned, in any order
RecipeContent ==
    /\ Handling /\ Handled
    /\ \E name \in BagToSet(fetches) :
          /\ m' = AfterMsg(SetContent(m, name), RecipeContentMsg)
          /\ fetches' = (fetches (-) Copies(name, 1))
                        (+) (IF m.state = "viewList"
                             THEN TailFetches(m.list, ListMsg(m.list, RecipeContentMsg), FALSE)
                             ELSE EmptyBag)
          /\ FetchRoom
    /\ UNCHANGED <<keys, ch, orphans, pending, running, env, cfg, formFrom, interrupted, main, readable>>

\* the fetch the resize case starts, whatever the state
ResizeFetches(l) ==
    IF SelectedItem(l) # <<>> /\ SelectedItem(l)[1].kind = "recipe"
    THEN Copies(SelectedItem(l)[1].name, 1)
    ELSE EmptyBag

\* a tea.WindowSizeMsg: the sizes are set, the details of the selected task
\* are fetched, and in viewList the end of Update fetches them again
WindowSize ==
    /\ Handling /\ Handled
    /\ m' = AfterMsg(m, WindowSizeMsg)
    /\ fetches' = fetches (+) ResizeFetches(m.list)
                  (+) (IF m.state = "viewList"
                       THEN TailFetches(m.list, ListMsg(m.list, WindowSizeMsg), TRUE)
                       ELSE EmptyBag)
    /\ FetchRoom
    /\ UNCHANGED <<keys, ch, orphans, pending, running, env, cfg, formFrom, interrupted, main, readable>>

\* the listing command returns the models: modelsFetchedMsg
ModelsFetched ==
    /\ Handling /\ Handled
    /\ \E cmd \in {p \in pending : p.type = "listModels"} :
          /\ pending' = pending \ {cmd}
          /\ \E models \in ModelLists :
                m' = [m EXCEPT !.state = "viewModelSelect",
                               !.modelList = NewList([i \in 1..Len(models) |->
                                                         ModelItem(models[i])])]
    /\ UNCHANGED <<keys, ch, orphans, running, env, cfg, formFrom, interrupted, fetches, main, readable>>

\* an error message shown as a banner, as any other error is
ErrorBanner(mm) == [mm EXCEPT !.err = "list_models_failed"]

\* the error list_models_failed: the fallback to manual entry of the model
ManualModelEntry(mm) ==
    [mm EXCEPT !.state = "viewModelInput",
               !.inputs = <<NewInput(DEFAULT_PROMPT, MODEL_PLACEHOLDER, TRUE)>>,
               !.focusIndex = 0,
               !.err = ""]

\* the listing command fails: the error list_models_failed
ListModelsFailed ==
    /\ Handling /\ Handled
    /\ \E cmd \in {p \in pending : p.type = "listModels"} :
          /\ pending' = pending \ {cmd}
          /\ m' = ManualModelEntry(m)
    /\ UNCHANGED <<keys, ch, orphans, running, env, cfg, formFrom, interrupted, fetches, main, readable>>

AiCompletionMsg(text) == [type |-> "aiCompletion", text |-> text]

\* an error message answered by a new start of the generation
Restarted(c) ==
    [pc |-> "start", buf |-> <<>>, waits |-> 1, sent |-> <<>>,
     errk |-> "", prompt |-> c.prompt, provider |-> ""]

\* the channel after waitForStream has received its head and the handler has
\* returned no new wait
Received(c) == [c EXCEPT !.buf = Tail(c.buf), !.waits = c.waits - 1]

\* a chunk answered by two waits on the channel
RearmedTwice(c) == [c EXCEPT !.buf = Tail(c.buf), !.waits = c.waits + 1]

\* a chunk answered by no new wait
RearmedNever(c) == [c EXCEPT !.buf = Tail(c.buf), !.waits = c.waits - 1]

\* the channel after waitForStream has received a chunk and the handler has
\* returned one new waitForStream
Rearmed(c) == [c EXCEPT !.buf = Tail(c.buf)]

\* a streamResult: waitForStream has received the head of the channel
StreamResult ==
    /\ Handling /\ Handled
    /\ ch.waits > 0 /\ ch.buf # <<>>
    /\ LET msg == Head(ch.buf)
       IN  IF msg.kind = "err"
           THEN /\ m' = IF msg.err = "MISSING_API_KEY"
                        THEN [m EXCEPT !.state = "viewProviderSelect", !.err = "",
                                       !.providerIndex = 0]
                        ELSE [m EXCEPT !.err = "ai", !.state = "viewList"]
                /\ ch' = Received(ch)
                /\ UNCHANGED pending
           ELSE IF msg.kind = "done"
           THEN /\ pending' = pending \cup {AiCompletionMsg(m.streamContent)}
                /\ ch' = [ch EXCEPT !.buf = Tail(ch.buf), !.waits = ch.waits - 1]
                /\ UNCHANGED m
           ELSE /\ m' = [m EXCEPT !.streamContent = AppendChunk(m.streamContent, msg.chunk)]
                /\ ch' = Rearmed(ch)
                /\ UNCHANGED pending
    /\ UNCHANGED <<keys, orphans, running, env, cfg, formFrom, interrupted, fetches, main, readable>>

AiRecipe == [Name |-> AI_COMMAND, Parameters |-> <<Param(COMMAND, <<>>, "")>>]

\* an aiCompletionMsg: the generated text opens a one-field form
AiCompletion ==
    /\ Handling /\ Handled
    /\ \E msg \in {p \in pending : p.type = "aiCompletion"} :
          /\ pending' = pending \ {msg}
          /\ m' = [m EXCEPT !.state = "viewInput",
                            !.selectedRecipe = <<AiRecipe>>,
                            !.inputs = <<SetValue(NewInput(RUN_PROMPT, <<>>, TRUE),
                                                  msg.text)>>,
                            !.focusIndex = 0]
    /\ formFrom' = "ai"
    /\ UNCHANGED <<keys, ch, orphans, running, env, cfg, interrupted, fetches, main, readable>>

\* the QuitMsg reaches the loop: Run returns
LoopStop ==
    /\ running
    /\ QuitMsg \in pending
    /\ running' = FALSE
    /\ UNCHANGED <<keys, late, m, ch, orphans, pending, env, cfg, formFrom, interrupted, fetches, main, readable>>

\* ------------------------------------------- the generation goroutine
\* `ch <- msg`: the message joins the buffer (the send waits for room)
Send(c, msg) == [c EXCEPT !.buf = Append(c.buf, msg), !.sent = Append(c.sent, msg)]

HasRoom(c) == Len(c.buf) < ChanCap

ChunksSent(c) == Cardinality({i \in 1..Len(c.sent) : c.sent[i].kind = "chunk"})

\* GenerateCommand's credentials: the environment, then the config file
GoogleKey == IF env.google # <<>> THEN env.google ELSE LoadConfig.GoogleAPIKey
OpenAIKey == IF env.openai # <<>> THEN env.openai ELSE LoadConfig.OpenAIAPIKey

\* GenerateCommand going on to the provider call without looking for a key
ResolveAlwaysStreams(c) == [c EXCEPT !.pc = "streaming"]

\* GenerateCommand using the provider highlighted in viewProviderSelect
ResolveHighlighted(c) ==
    IF GoogleKey = <<>> /\ OpenAIKey = <<>>
    THEN [c EXCEPT !.pc = "senderr", !.errk = "MISSING_API_KEY"]
    ELSE [c EXCEPT !.pc = "streaming",
                   !.provider = IF m.providerIndex = 0 THEN "google" ELSE "openai"]

\* GenerateCommand up to the provider call: without a credential it returns
\* the error MISSING_API_KEY
Resolve(c) ==
    IF GoogleKey = <<>> /\ OpenAIKey = <<>>
    THEN [c EXCEPT !.pc = "senderr", !.errk = "MISSING_API_KEY"]
    ELSE [c EXCEPT !.pc = "streaming",
                   !.provider = IF GoogleKey # <<>> THEN "google" ELSE "openai"]

\* the goroutine after GenerateCommand returned an error: the error is sent,
\* and the goroutine goes on to send done
SendErr(c) == [Send(c, ErrMsg(c.errk)) EXCEPT !.pc = "senddone"]

\* the last send of the goroutine, then the deferred close
SendDone(c) == [Send(c, DoneMsg) EXCEPT !.pc = "closed"]

\* the provider has a chunk: GenerateCommand calls the callback
Callback(c) == [c EXCEPT !.pc = "sendchunk"]

\* a chunk dropped when the channel is full
SendChunkOrDrop(c) == [c EXCEPT !.pc = "streaming"]

\* the callback's `ch <- streamResult{chunk: s}`, then back in GenerateCommand
SendChunk(c) ==
    [Send(c, ChunkMsg(ChunkAt(ChunksSent(c) + 1))) EXCEPT !.pc = "streaming"]

\* the steps a goroutine can take from c
ProducerSteps(c) ==
    (IF c.pc = "start" THEN {Resolve(c)} ELSE {})
    \cup (IF c.pc = "streaming"
          THEN {[c EXCEPT !.pc = "senderr", !.errk = "AI generation failed"],
                [c EXCEPT !.pc = "senddone"]}
               \cup (IF ChunksSent(c) < MaxChunks THEN {Callback(c)} ELSE {})
          ELSE {})
    \cup (IF c.pc = "sendchunk" /\ HasRoom(c) THEN {SendChunk(c)} ELSE {})
    \cup (IF c.pc = "senderr" /\ HasRoom(c) THEN {SendErr(c)} ELSE {})
    \cup (IF c.pc = "senddone" /\ HasRoom(c) THEN {SendDone(c)} ELSE {})

ProducerStart ==
    /\ running /\ ch.pc = "start"
    /\ ch' = Resolve(ch)
    /\ UNCHANGED <<keys, late, m, orphans, pending, running, env, cfg, formFrom, interrupted, fetches, main, readable>>

\* the provider delivers a chunk to the streaming callback
ProducerCallback ==
    /\ running /\ ch.pc = "streaming"
    /\ ChunksSent(ch) < MaxChunks
    /\ ch' = Callback(ch)
    /\ UNCHANGED <<keys, late, m, orphans, pending, running, env, cfg, formFrom, interrupted, fetches, main, readable>>

\* the streaming callback: the chunk is sent once the channel has room
ProducerChunk ==
    /\ running /\ ch.pc = "sendchunk"
    /\ HasRoom(ch)
    /\ ch' = SendChunk(ch)
    /\ UNCHANGED <<keys, late, m, orphans, pending, running, env, cfg, formFrom, interrupted, fetches, main, readable>>

\* GenerateCommand returns an error (client, provider, empty response)
ProducerFail ==
    /\ running /\ ch.pc = "streaming"
    /\ ch' = [ch EXCEPT !.pc = "senderr", !.errk = "AI generation failed"]
    /\ UNCHANGED <<keys, late, m, orphans, pending, running, env, cfg, formFrom, interrupted, fetches, main, readable>>

\* GenerateCommand returns the completion
ProducerSucceed ==
    /\ running /\ ch.pc = "streaming"
    /\ ch' = [ch EXCEPT !.pc = "senddone"]
    /\ UNCHANGED <<keys, late, m, orphans, pending, running, env, cfg, formFrom, interrupted, fetches, main, readable>>

ProducerSendErr ==
    /\ running /\ ch.pc = "senderr" /\ HasRoom(ch)
    /\ ch' = SendErr(ch)
    /\ UNCHANGED <<keys, late, m, orphans, pending, running, env, cfg, formFrom, interrupted, fetches, main, readable>>

ProducerSendDone ==
    /\ running /\ ch.pc = "senddone" /\ HasRoom(ch)
    /\ ch' = SendDone(ch)
    /\ UNCHANGED <<keys, late, m, orphans, pending, running, env, cfg, formFrom, interrupted, fetches, main, readable>>

\* a goroutine of an earlier generation takes a step; once it has closed its
\* channel nothing refers to it any more
OrphanStep ==
    /\ running
    /\ \E o \in orphans : \E o2 \in ProducerSteps(o) :
          orphans' = (orphans \ {o}) \cup (IF o2.pc = "closed" THEN {} ELSE {o2})
    /\ UNCHANGED <<keys, late, m, ch, pending, running, env, cfg, formFrom, interrupted, fetches, main, readable>>

\* ------------------------------------------------------ main after p.Run
\* no final command: main returns
MainReturn ==
    /\ ~running /\ main.pc = "run"
    /\ Handoff = <<>>
    /\ main' = Exited(0)
    /\ UNCHANGED <<keys, late, m, ch, orphans, pending, running, env, cfg, formFrom,
                   interrupted, fetches, readable>>

\* the command is not on the search path: os.Exit(1)
MainLookPathFails ==
    /\ ~running /\ main.pc = "run"
    /\ Handoff # <<>>
    /\ main' = Exited(1)
    /\ UNCHANGED <<keys, late, m, ch, orphans, pending, running, env, cfg, formFrom,
                   interrupted, fetches, readable>>

\* the command is found and syscall.Exec fails: os.Exit(1)
MainExecFails ==
    /\ ~running /\ main.pc = "run"
    /\ Handoff # <<>>
    /\ main' = Exited(1)
    /\ UNCHANGED <<keys, late, m, ch, orphans, pending, running, env, cfg, formFrom,
                   interrupted, fetches, readable>>

\* the command is found and the process becomes it
MainExec ==
    /\ ~running /\ main.pc = "run"
    /\ Handoff # <<>>
    /\ main' = Exec(LookPath(Handoff[1][1]), Handoff[1])
    /\ UNCHANGED <<keys, late, m, ch, orphans, pending, running, env, cfg, formFrom,
                   interrupted, fetches, readable>>

\* ----------------------------------------------------------- specification
Next ==
    \/ KeyCtrlC
    \/ KeyGenerating
    \/ CtrlPList
    \/ EnterListAi
    \/ EnterListTaskParams
    \/ EnterListTaskNoParams
    \/ QList
    \/ EscList
    \/ RuneList
    \/ NavList
    \/ EscForm
    \/ NavForm
    \/ RuneForm
    \/ EnterProviderSelect
    \/ EnterApiKeyInput
    \/ EnterModelInput
    \/ EnterInputAdvance
    \/ EnterInputSubmit
    \/ KeyModelSelect
    \/ FilterMatches
    \/ ModelsFetched
    \/ ListModelsFailed
    \/ StreamResult
    \/ AiCompletion
    \/ RecipeContent
    \/ WindowSize
    \/ LoopStop
    \/ ProducerStart
    \/ ProducerCallback
    \/ ProducerChunk
    \/ ProducerFail
    \/ ProducerSucceed
    \/ ProducerSendErr
    \/ ProducerSendDone
    \/ OrphanStep
    \/ MainReturn
    \/ MainLookPathFails
    \/ MainExecFails
    \/ MainExec

Spec == Init /\ [][Next]_vars

\* ------------------------------------------- the generation, on its own
\* both keys in the environment
BothEnv == [google |-> K_env, openai |-> K_env]

\* config files an earlier run has saved a model name to
OpenAIModelConfig == [EmptyConfig EXCEPT !.OpenAIModel = M_a]
GoogleModelConfig == [EmptyConfig EXCEPT !.GoogleModel = M_a]

\* the worlds of the whole program and those with a saved model
StreamWorlds ==
    Worlds \cup {<<{}, BothEnv, OpenAIModelConfig>>, <<{}, OpenAIEnv, GoogleModelConfig>>}

\* main in those worlds
InitStream ==
    /\ \E w \in StreamWorlds :
          /\ env = w[2]
          /\ cfg = w[3]
          /\ m = [list |-> NewList(ItemsOf(w[1])),
                  inputs |-> <<>>,
                  modelList |-> NewList(<<>>),
                  focusIndex |-> 0,
                  providerIndex |-> 0,
                  state |-> "viewList",
                  recipes |-> w[1],
                  selectedRecipe |-> <<>>,
                  err |-> "",
                  finalCmd |-> <<>>,
                  aiPrompt |-> <<>>,
                  streamContent |-> <<>>,
                  viewport |-> NoContent]
    /\ ch = NoChan
    /\ orphans = {}
    /\ pending = {}
    /\ running = TRUE
    /\ formFrom = "none"
    /\ interrupted = FALSE
    /\ late = 0
    /\ keys = 0
    /\ fetches = EmptyBag
    /\ main = InRun
    /\ readable = TRUE

\* the list, the generation and its goroutines, and the ways out of it
NextStream ==
    \/ NavList
    \/ CtrlPList
    \/ NavForm
    \/ EnterListAi
    \/ KeyCtrlC
    \/ KeyGenerating
    \/ EscForm
    \/ StreamResult
    \/ AiCompletion
    \/ LoopStop
    \/ ProducerStart
    \/ ProducerCallback
    \/ ProducerChunk
    \/ ProducerFail
    \/ ProducerSucceed
    \/ ProducerSendErr
    \/ ProducerSendDone
    \/ OrphanStep

\* the goroutines are scheduled, the provider call returns, and the loop
\* handles the messages that reach it and stops on a QuitMsg
FairStream ==
    /\ WF_vars(ProducerStart)
    /\ WF_vars(ProducerChunk)
    /\ WF_vars(ProducerFail \/ ProducerSucceed)
    /\ WF_vars(ProducerSendErr)
    /\ WF_vars(ProducerSendDone)
    /\ WF_vars(OrphanStep)
    /\ WF_vars(StreamResult)
    /\ WF_vars(AiCompletion)
    /\ WF_vars(LoopStop)

SpecStream == InitStream /\ [][NextStream]_vars /\ FairStream

\* ------------------------------------------- the config file, on its own
\* a config file with every field saved by earlier runs
FullConfig ==
    [GoogleAPIKey |-> K_file, OpenAIAPIKey |-> K_file,
     GoogleModel |-> M_a, OpenAIModel |-> M_b]

\* main with an empty catalog, no key in the environment and one of three
\* config files
InitConfig ==
    /\ cfg \in {EmptyConfig, GoogleFileConfig, FullConfig}
    /\ env = NoEnv
    /\ m = [list |-> NewList(ItemsOf({})),
            inputs |-> <<>>,
            modelList |-> NewList(<<>>),
            focusIndex |-> 0,
            providerIndex |-> 0,
            state |-> "viewList",
            recipes |-> {},
            selectedRecipe |-> <<>>,
            err |-> "",
            finalCmd |-> <<>>,
            aiPrompt |-> <<>>,
            streamContent |-> <<>>,
            viewport |-> NoContent]
    /\ ch = NoChan
    /\ orphans = {}
    /\ pending = {}
    /\ running = TRUE
    /\ formFrom = "none"
    /\ interrupted = FALSE
    /\ late = 0
    /\ keys = 0
    /\ fetches = EmptyBag
    /\ main = InRun
    /\ readable = TRUE

\* the file becomes unreadable (os.ReadFile or json.Unmarshal fail), or
\* readable again
ReadChanges ==
    /\ running
    /\ readable' = ~readable
    /\ UNCHANGED <<m, ch, orphans, pending, running, env, cfg, formFrom, interrupted,
                   late, keys, fetches, main>>

\* the AI settings: provider, key and model, with a config file that may fail
\* to load
NextConfig ==
    \/ CtrlPList
    \/ NavForm
    \/ RuneForm
    \/ EscForm
    \/ EnterProviderSelect
    \/ EnterApiKeyInput
    \/ EnterModelInput
    \/ KeyModelSelect
    \/ FilterMatches
    \/ ModelsFetched
    \/ ListModelsFailed
    \/ ReadChanges

SpecConfig == InitConfig /\ [][NextConfig]_vars

\* ------------------------------------------- the form at submit, on its own
\* longest text a form field holds when the form is submitted
ArgMaxLen == 3

\* the characters of those texts
ArgChars == {"a", " "}

RECURSIVE TextsUpTo(_, _)
TextsUpTo(chars, n) ==
    IF n = 0 THEN {<<>>}
    ELSE LET shorter == TextsUpTo(chars, n - 1)
         IN  shorter \cup {Append(t, c) : t \in shorter, c \in chars}

\* the tasks whose form is submitted
ArgRecipes == {R_hello, R_diff, R_lint, R_bench}

\* the position of task r in the list of the catalog rs
CursorOf(rs, r) ==
    CHOOSE i \in 1..Len(ItemsOf(rs)) : ItemsOf(rs)[i] = RecipeItem(r.Name)

\* the form of a task of the catalog, opened from the list and filled in, with
\* the focus back on the first field
InitArgs ==
    /\ \E r \in ArgRecipes :
          \E vals \in [1..Len(r.Parameters) -> TextsUpTo(ArgChars, ArgMaxLen)] :
             m = [list |-> [NewList(ItemsOf(ArgRecipes))
                               EXCEPT !.cursor = CursorOf(ArgRecipes, r)],
                  inputs |-> [i \in 1..Len(r.Parameters) |->
                                 SetValue(FieldsFor(r.Parameters)[i], vals[i])],
                  modelList |-> NewList(<<>>),
                  focusIndex |-> 0,
                  providerIndex |-> 0,
                  state |-> "viewInput",
                  recipes |-> ArgRecipes,
                  selectedRecipe |-> <<r>>,
                  err |-> "",
                  finalCmd |-> <<>>,
                  aiPrompt |-> <<>>,
                  streamContent |-> <<>>,
                  viewport |-> NoContent]
    /\ ch = NoChan
    /\ orphans = {}
    /\ pending = {}
    /\ running = TRUE
    /\ env = NoEnv
    /\ cfg = EmptyConfig
    /\ formFrom = "task"
    /\ interrupted = FALSE
    /\ late = 0
    /\ keys = 0
    /\ fetches = EmptyBag
    /\ main = InRun
    /\ readable = TRUE

NextArgs ==
    \/ EnterInputAdvance
    \/ EnterInputSubmit
    \/ LoopStop

SpecArgs == InitArgs /\ [][NextArgs]_vars

\* ------------------------------------------ the list's filter, on its own
\* the tasks the catalogs of the filtered list are drawn from
FilterRecipes == {R_build, R_hello, R_diff, R_lint, R_bench}

\* main with any catalog of those tasks
InitFilter ==
    /\ \E rs \in SUBSET FilterRecipes :
          m = [list |-> NewList(ItemsOf(rs)),
               inputs |-> <<>>,
               modelList |-> NewList(<<>>),
               focusIndex |-> 0,
               providerIndex |-> 0,
               state |-> "viewList",
               recipes |-> rs,
               selectedRecipe |-> <<>>,
               err |-> "",
               finalCmd |-> <<>>,
               aiPrompt |-> <<>>,
               streamContent |-> <<>>,
               viewport |-> NoContent]
    /\ ch = NoChan
    /\ orphans = {}
    /\ pending = {}
    /\ running = TRUE
    /\ env = NoEnv
    /\ cfg = EmptyConfig
    /\ formFrom = "none"
    /\ interrupted = FALSE
    /\ late = 0
    /\ keys = 0
    /\ fetches = EmptyBag
    /\ main = InRun
    /\ readable = TRUE

NextFilter ==
    \/ RuneList
    \/ KList
    \/ BackspaceList
    \/ FilterMatches
    \/ NavList
    \/ EscList
    \/ QList
    \/ RecipeContent
    \/ WindowSize
    \/ LoopStop

SpecFilter == InitFilter /\ [][NextFilter]_vars

\* ------------------------------------------------ the form, on its own
\* a task with three parameters, and the catalog it is loaded in
T_cab == <<"c", "a", "b">>
R_cab == [Name |-> T_cab,
          Parameters |-> <<Param(<<"a">>, <<>>, "singular"),
                           Param(<<"b">>, <<>>, "singular"),
                           Param(<<"c">>, <<>>, "singular")>>]
FormRecipes == {R_cab, R_diff}

\* main with that catalog
InitForm ==
    /\ m = [list |-> NewList(ItemsOf(FormRecipes)),
            inputs |-> <<>>,
            modelList |-> NewList(<<>>),
            focusIndex |-> 0,
            providerIndex |-> 0,
            state |-> "viewList",
            recipes |-> FormRecipes,
            selectedRecipe |-> <<>>,
            err |-> "",
            finalCmd |-> <<>>,
            aiPrompt |-> <<>>,
            streamContent |-> <<>>,
            viewport |-> NoContent]
    /\ ch = NoChan
    /\ orphans = {}
    /\ pending = {}
    /\ running = TRUE
    /\ env = NoEnv
    /\ cfg = EmptyConfig
    /\ formFrom = "none"
    /\ interrupted = FALSE
    /\ late = 0
    /\ keys = 0
    /\ fetches = EmptyBag
    /\ main = InRun
    /\ readable = TRUE

NextForm ==
    \/ NavList
    \/ EnterListTaskParams
    \/ CtrlPList
    \/ EnterProviderSelect
    \/ EnterApiKeyInput
    \/ ListModelsFailed
    \/ EnterModelInput
    \/ NavForm
    \/ RuneForm
    \/ LeftForm
    \/ CtrlFForm
    \/ PickerExit
    \/ Paste
    \/ EnterInputAdvance
    \/ EnterInputSubmit
    \/ EscForm
    \/ LoopStop

SpecForm == InitForm /\ [][NextForm]_vars

\* ------------------------------------------------------------------ claims
\* the form of a task of the catalog is submitted
TaskSubmit == EnterInputSubmit /\ formFrom = "task"

Variadic(p) == p.Kind \in {"plus", "star"}

\* the value of a field after the declared default has replaced an empty one
Substituted(val, p) == IF val = <<>> /\ p.Default # <<>> THEN p.Default[1] ELSE val

\* the maximal runs of non-space characters of s, stated by their positions:
\* a run starts where a non-space character follows the start or a space
RunStarts(s) == {i \in 1..Len(s) : ~IsSpace(s[i]) /\ (i = 1 \/ IsSpace(s[i - 1]))}

RunEnd(s, i) ==
    CHOOSE j \in i..Len(s) :
        /\ \A k \in i..j : ~IsSpace(s[k])
        /\ j = Len(s) \/ IsSpace(s[j + 1])

NthStart(s, n) ==
    CHOOSE i \in RunStarts(s) : Cardinality({x \in RunStarts(s) : x < i}) = n - 1

Tokens(s) ==
    [n \in 1..Cardinality(RunStarts(s)) |-> SubSeq(s, NthStart(s, n), RunEnd(s, NthStart(s, n)))]

\* C1: in the form of a real task, enter on the last field asks the loop to
\* quit with finalCmd = <<just, task name>> followed by the arguments of the
\* fields in declared parameter order; with two singular parameters without
\* defaults holding v1 and v2 that is <<just, task name, v1, v2>>.
C1_SubmitBuildsJustCommand ==
    [][TaskSubmit =>
         LET r == m.selectedRecipe[1]
             ps == r.Parameters
         IN  /\ QuitMsg \in pending'
             /\ m'.finalCmd = <<JUST, r.Name>>
                    \o Concat([i \in 1..Len(ps) |-> ArgsOfField(m.inputs[i].value, ps[i])])
             /\ (Len(ps) = 2 /\ \A i \in 1..2 : ~Variadic(ps[i]) /\ ps[i].Default = <<>>)
                   => m'.finalCmd = <<JUST, r.Name, m.inputs[1].value, m.inputs[2].value>>
      ]_vars

C1_Witness ==
    /\ QuitMsg \in pending
    /\ m.selectedRecipe = <<R_diff>>
    /\ m.finalCmd = <<JUST, T_diff, <<"a">>, <<"a", "a">>>>

AllFieldsEmpty == \A i \in 1..Len(m.inputs) : m.inputs[i].value = <<>>

\* what an empty field contributes as C2 states it: the default, else one
\* empty argument whatever the kind
EmptyFieldAsStated(p) ==
    IF p.Default = <<>> THEN << <<>> >>
    ELSE IF Variadic(p) THEN Tokens(p.Default[1]) ELSE <<p.Default[1]>>

\* what an empty field contributes: a singular one its default or one empty
\* argument, a variadic one the tokens of its default, none without a default
EmptyFieldArgs(p) ==
    LET d == IF p.Default = <<>> THEN <<>> ELSE p.Default[1]
    IN  IF Variadic(p) THEN Tokens(d) ELSE <<d>>

\* C2 as stated: submitting a task's form with every field empty gives the
\* declared defaults in declared order and exactly one empty argument for
\* every field without a default, whatever the parameter kind.
C2_EmptyFieldsAsStated ==
    [][(TaskSubmit /\ AllFieldsEmpty) =>
         LET r == m.selectedRecipe[1]
         IN  m'.finalCmd = <<JUST, r.Name>>
                 \o Concat([i \in 1..Len(r.Parameters) |-> EmptyFieldAsStated(r.Parameters[i])])
      ]_vars

\* C2 amended: submitting a task's form with every field empty gives the
\* declared defaults in declared order; a singular field without a default
\* gives exactly one empty argument, a plus or star field without a default
\* gives no argument at all; hello with name defaulting to World gives
\* <<just, hello, World>>.
C2_EmptyFieldsUseDefaults ==
    [][(TaskSubmit /\ AllFieldsEmpty) =>
         LET r == m.selectedRecipe[1]
         IN  /\ m'.finalCmd = <<JUST, r.Name>>
                    \o Concat([i \in 1..Len(r.Parameters) |-> EmptyFieldArgs(r.Parameters[i])])
             /\ r = R_hello => m'.finalCmd = <<JUST, T_hello, T_World>>
      ]_vars

C2_Witness ==
    /\ QuitMsg \in pending
    /\ m.selectedRecipe = <<R_lint>>
    /\ AllFieldsEmpty
    /\ m.finalCmd = <<JUST, T_lint>>

\* C3: at submit the value of a plus or star parameter, after the default has
\* replaced an empty value, gives one argument per maximal run of non-space
\* characters ("a b  c" gives a, b, c), and the value of a singular parameter
\* gives exactly one argument whatever whitespace it holds.
C3_VariadicSplitOnWhitespace ==
    [][TaskSubmit =>
         LET r == m.selectedRecipe[1]
             ps == r.Parameters
             argsOf(i) == IF Variadic(ps[i])
                          THEN Tokens(Substituted(m.inputs[i].value, ps[i]))
                          ELSE <<Substituted(m.inputs[i].value, ps[i])>>
         IN  /\ m'.finalCmd = <<JUST, r.Name>> \o Concat([i \in 1..Len(ps) |-> argsOf(i)])
             /\ Fields(<<"a", " ", "b", " ", " ", "c">>) = << <<"a">>, <<"b">>, <<"c">> >>
      ]_vars

C3_Witness ==
    /\ QuitMsg \in pending
    /\ m.selectedRecipe = <<R_lint>>
    /\ m.inputs[1].value = <<"a", " ", " ">>
    /\ m.finalCmd = <<JUST, T_lint, <<"a">>>>

\* C4: in the list, enter on a task without parameters sets finalCmd to
\* <<just, task name>> and asks the loop to quit in the same step, the form
\* not entered; enter on a task with parameters opens the form and leaves
\* finalCmd as it was.
C4_SelectTask ==
    [][/\ EnterListTaskNoParams =>
            /\ m'.finalCmd = <<JUST, SelectedItem(m.list)[1].name>>
            /\ QuitMsg \in pending'
            /\ m'.state = "viewList"
            /\ m'.inputs = m.inputs
       /\ EnterListTaskParams =>
            /\ m'.finalCmd = m.finalCmd
            /\ m'.state = "viewInput"
            /\ Len(m'.inputs) > 0
            /\ pending' = pending
      ]_vars

C4_Witness ==
    /\ m.state = "viewList"
    /\ Len(m.inputs) = 0
    /\ m.selectedRecipe = <<R_build>>
    /\ m.finalCmd = <<JUST, T_build>>
    /\ QuitMsg \in pending
    /\ late = 0

\* C5: submitting the form opened by a completed generation sets finalCmd to
\* exactly <<sh, -c, value of the single field>>; submitting the form of a
\* task of the catalog sets a finalCmd that starts with just and the name of
\* that task.
C5_AiFormBypassesRunner ==
    [][EnterInputSubmit =>
         IF formFrom = "ai"
         THEN /\ Len(m.inputs) = 1
              /\ m'.finalCmd = <<SH, DASH_C, m.inputs[1].value>>
         ELSE /\ formFrom = "task"
              /\ Len(m'.finalCmd) >= 2
              /\ m'.finalCmd[1] = JUST
              /\ m'.finalCmd[2] = m.selectedRecipe[1].Name
              /\ m.selectedRecipe[1] \in m.recipes
      ]_vars

C5_Witness ==
    /\ formFrom = "ai"
    /\ m.state = "viewInput"
    /\ Len(m.inputs) = 1
    /\ QuitMsg \in pending
    /\ m.inputs[1].value = <<"l", "s", " ", "-", "l", "a">>
    /\ m.finalCmd = <<SH, DASH_C, <<"l", "s", " ", "-", "l", "a">>>>

\* C6 as stated: once finalCmd is set no later event changes it, the events
\* handled between the quit request and the loop's return included.
C6_FinalCmdImmutable ==
    [][m.finalCmd # <<>> => m'.finalCmd = m.finalCmd]_vars

\* C7 as stated: once ctrl+c has been handled the run ends with no command
\* handed off for execution.
C7_CtrlCNoCommand ==
    (~running /\ interrupted) => Handoff = <<>>

\* C8: for every filter text and catalog the ranks of the list's filter end
\* with the AI entry, hold it exactly once, and before it are exactly the
\* fuzzy ranking of the real task names; the filtered items the list is sent
\* are the items at those ranks.
C8_FilterKeepsAiLast ==
    [][RuneList =>
         LET term == m'.list.filterText
             items == m.list.items
             n == Len(items)
             targets == Targets(m.list)
             names == [i \in 1..(n - 1) |-> items[i].name]
             ranks == Filter(term, targets)
             real == FuzzyFind(term, names)
         IN  /\ items[n] = AiItem
             /\ Len(ranks) = Len(real) + 1
             /\ ranks[Len(ranks)] = n
             /\ Cardinality({k \in 1..Len(ranks) : ranks[k] = n}) = 1
             /\ \A k \in 1..Len(real) : ranks[k] = real[k]
             /\ \A msg \in pending' \ pending :
                   /\ msg.type = "filterMatches"
                   /\ msg.items = [k \in 1..Len(ranks) |-> items[ranks[k]]]
                   /\ msg.items[Len(msg.items)] = AiItem
      ]_vars

C8_Witness ==
    /\ m.list.filterText = <<"l">>
    /\ m.recipes = {R_build, R_hello, R_diff}
    /\ m.list.filtered = <<RecipeItem(T_hello), RecipeItem(T_build), AiItem>>

\* the terminal messages among those a goroutine has sent
Terminals(sent) == {i \in 1..Len(sent) : sent[i].kind \in {"err", "done"}}

\* C9 as stated: a generation's goroutine sends chunks and then at most one
\* terminal message, an error or a done, never both, and nothing after it.
C9_OneTerminalMessage ==
    \A c \in {ch} \cup orphans :
        /\ Cardinality(Terminals(c.sent)) <= 1
        /\ \A i \in Terminals(c.sent) : i = Len(c.sent)

RECURSIVE ChunkText(_)
\* the payloads of the chunks among the messages sent, joined in order
ChunkText(sent) ==
    IF sent = <<>> THEN <<>>
    ELSE (IF Head(sent).kind = "chunk" THEN Head(sent).chunk ELSE <<>>)
         \o ChunkText(Tail(sent))

\* C10: when the completion of a generation that ended with done is handled,
\* the state becomes viewInput with exactly one field, and the field holds the
\* payloads of all chunks of that generation joined in the order they were
\* sent (chunks "ls " and "-la" give "ls -la").
C10_FormHoldsJoinedChunks ==
    [][AiCompletion =>
         /\ m'.state = "viewInput"
         /\ Len(m'.inputs) = 1
         /\ ch.sent # <<>>
         /\ ch.sent[Len(ch.sent)] = DoneMsg
         /\ m'.inputs[1].value = ChunkText(ch.sent)
      ]_vars

C10_Witness ==
    /\ m.state = "viewInput"
    /\ formFrom = "ai"
    /\ Len(m.inputs) = 1
    /\ ChunkText(ch.sent) = <<"l", "s", " ", "-", "l", "a">>
    /\ m.inputs[1].value = <<"l", "s", " ", "-", "l", "a">>
    /\ m.finalCmd = <<>>
    /\ QuitMsg \notin pending

\* the error GenerateCommand returns when no credential is found
MissingKeyErr == ErrMsg("MISSING_API_KEY")

\* C11: a generation started while neither provider has a credential, in the
\* environment or the config file, sends the error MISSING_API_KEY as its
\* first message, and the handling of that message puts the state at
\* viewProviderSelect with the first provider highlighted and no error.
C11_MissingKeyOpensProviderSelect ==
    [][/\ (ProducerStart /\ GoogleKey = <<>> /\ OpenAIKey = <<>>) =>
            /\ ch'.pc = "senderr"
            /\ ch'.errk = "MISSING_API_KEY"
            /\ ch'.sent = <<>>
       /\ (ProducerSendErr /\ ch.errk = "MISSING_API_KEY") =>
            ch'.sent = <<MissingKeyErr>>
       /\ (StreamResult /\ Head(ch.buf) = MissingKeyErr) =>
            /\ m'.state = "viewProviderSelect"
            /\ m'.providerIndex = 0
            /\ m'.err = ""
      ]_vars

C11_Witness ==
    /\ m.state = "viewProviderSelect"
    /\ m.providerIndex = 0
    /\ m.err = ""
    /\ ch.sent # <<>>
    /\ ch.sent[1] = MissingKeyErr
    /\ ch.waits = 0
    /\ GoogleKey = <<>> /\ OpenAIKey = <<>>

\* C12: the handling of a stream error other than MISSING_API_KEY sets the
\* error banner and puts the state at viewList, and the next key message,
\* whatever the key, clears the banner.
C12_StreamErrorBanner ==
    [][/\ (StreamResult /\ Head(ch.buf).kind = "err" /\ Head(ch.buf) # MissingKeyErr) =>
            /\ m'.err = "ai"
            /\ m'.state = "viewList"
       /\ (keys' = keys + 1 /\ m.err = "ai") => m'.err = ""
      ]_vars

C12_Witness ==
    /\ m.err = "ai"
    /\ m.state = "viewList"
    /\ ch.sent # <<>>
    /\ \E i \in 1..Len(ch.sent) : ch.sent[i] = ErrMsg("AI generation failed")
    /\ keys < MaxKeys
    /\ QuitMsg \notin pending

\* provider i (0 google, 1 openai) has a credential, in the config file or in
\* the environment
HasKey(i) ==
    IF i = 0 THEN cfg.GoogleAPIKey # <<>> \/ env.google # <<>>
    ELSE cfg.OpenAIAPIKey # <<>> \/ env.openai # <<>>

ListModelsCmds == {p \in pending : p.type = "listModels"}

\* C13: enter in viewProviderSelect starts the listing of the highlighted
\* provider's models when that provider has a credential, and else opens
\* viewApiKeyInput with one empty field; while the listing is awaited and no
\* quit was asked for the state stays viewGenerating; its success puts the
\* state at viewModelSelect, its failure at viewModelInput.
C13_ProviderSelectConfirm ==
    [][/\ (ListModelsCmds # {} /\ QuitMsg \notin pending) => m.state = "viewGenerating"
       /\ (EnterProviderSelect /\ HasKey(m.providerIndex)) =>
            /\ m'.state = "viewGenerating"
            /\ \E cmd \in pending' \ pending :
                  /\ cmd.type = "listModels"
                  /\ cmd.provider = (IF m.providerIndex = 0 THEN "google" ELSE "openai")
                  /\ cmd.key # <<>>
       /\ (EnterProviderSelect /\ ~HasKey(m.providerIndex)) =>
            /\ m'.state = "viewApiKeyInput"
            /\ Len(m'.inputs) = 1
            /\ m'.inputs[1].value = <<>>
            /\ m'.inputs[1].focus
            /\ pending' = pending
       /\ ModelsFetched => m'.state = "viewModelSelect"
       /\ ListModelsFailed => m'.state = "viewModelInput"
      ]_vars

C13_Witness ==
    /\ m.state = "viewModelSelect"
    /\ m.providerIndex = 0
    /\ env = GoogleEnv
    /\ cfg = EmptyConfig
    /\ Len(m.modelList.items) = 2
    /\ ListModelsCmds = {}

\* C14: enter in viewApiKeyInput with a non-empty value starts the listing
\* only together with the value stored in the config file as the highlighted
\* provider's key, and lists with that value (a save that fails starts no
\* listing and keeps the state); with an empty value the config file, the
\* commands in flight and the state stay as they were.
C14_ApiKeySavedThenListed ==
    [][EnterApiKeyInput =>
         LET key == m.inputs[1].value
             provider == IF m.providerIndex = 0 THEN "google" ELSE "openai"
             stored == IF m.providerIndex = 0 THEN cfg'.GoogleAPIKey ELSE cfg'.OpenAIAPIKey
         IN  IF key = <<>>
             THEN /\ cfg' = cfg
                  /\ pending' = pending
                  /\ m'.state = "viewApiKeyInput"
             ELSE \/ /\ stored = key
                     /\ cfg'.GoogleModel = cfg.GoogleModel /\ cfg'.OpenAIModel = cfg.OpenAIModel
                     /\ (IF m.providerIndex = 0 THEN cfg'.OpenAIAPIKey = cfg.OpenAIAPIKey
                         ELSE cfg'.GoogleAPIKey = cfg.GoogleAPIKey)
                     /\ pending' = pending \cup {ListModelsCmd(provider, key)}
                     /\ m'.state = "viewGenerating"
                  \/ /\ cfg' = cfg
                     /\ pending' = pending
                     /\ m'.state = "viewApiKeyInput"
                     /\ m'.err = "save"
      ]_vars

C14_Witness ==
    /\ m.state = "viewGenerating"
    /\ cfg.GoogleAPIKey = <<"a">>
    /\ ListModelsCmd("google", <<"a">>) \in pending
    /\ QuitMsg \notin pending

\* the model of the highlighted provider in a config
ModelOf(c) == IF m.providerIndex = 0 THEN c.GoogleModel ELSE c.OpenAIModel

SameButModel(c, d) ==
    /\ d.GoogleAPIKey = c.GoogleAPIKey
    /\ d.OpenAIAPIKey = c.OpenAIAPIKey
    /\ IF m.providerIndex = 0 THEN d.OpenAIModel = c.OpenAIModel
       ELSE d.GoogleModel = c.GoogleModel

\* C16: enter in viewModelInput always puts the state at viewList; a non-empty
\* typed value becomes the stored model of the highlighted provider (a save
\* that fails leaves the file as it was), and an empty value leaves the config
\* file unchanged.
C16_ModelInputSubmit ==
    [][EnterModelInput =>
         /\ m'.state = "viewList"
         /\ m.inputs[1].value = <<>> => cfg' = cfg
         /\ m.inputs[1].value # <<>> =>
               \/ cfg' = cfg
               \/ /\ ModelOf(cfg') = m.inputs[1].value
                  /\ SameButModel(cfg, cfg')
      ]_vars

C16_Witness ==
    /\ m.state = "viewList"
    /\ m.inputs = <<>>
    /\ m.providerIndex = 0
    /\ cfg.GoogleModel = <<"a">>
    /\ cfg.OpenAIModel = <<>>

\* C17: the handling of a failed model listing never leaves an error banner:
\* it puts the state at viewModelInput with exactly one field, empty and
\* focused, and the error cleared, whatever the state it arrives in.
C17_ListFailureToModelInput ==
    [][ListModelsFailed =>
         /\ m'.state = "viewModelInput"
         /\ m'.err = ""
         /\ Len(m'.inputs) = 1
         /\ m'.inputs[1].value = <<>>
         /\ m'.inputs[1].focus
         /\ m'.focusIndex = 0
      ]_vars

C17_Witness ==
    /\ m.state = "viewModelInput"
    /\ m.err = ""
    /\ Len(m.inputs) = 1
    /\ m.inputs[1].value = <<>>
    /\ m.inputs[1].focus
    /\ ListModelsCmds = {}
    /\ cfg.GoogleAPIKey = <<"a">>

\* C18: esc in viewInput, viewProviderSelect, viewApiKeyInput, viewModelInput
\* and viewModelSelect puts the state at viewList, leaves finalCmd and the
\* config file as they were and sends no quit; from viewInput the fields of
\* the form are dropped.
C18_EscReturnsToList ==
    [][(EscForm \/ ModelSelectKey(<<"esc">>)) =>
         /\ m'.state = "viewList"
         /\ m'.finalCmd = m.finalCmd
         /\ cfg' = cfg
         /\ pending' = pending
         /\ m.state = "viewInput" => m'.inputs = <<>>
      ]_vars

C18_Witness ==
    /\ m.state = "viewList"
    /\ m.selectedRecipe = <<R_hello>>
    /\ m.inputs = <<>>
    /\ m.finalCmd = <<>>
    /\ QuitMsg \notin pending

\* the credential of provider i by the stated order, for the values a run can
\* hold: the environment variable, then the config file
StatedKey(i) ==
    IF i = 0 THEN (IF env.google # <<>> THEN env.google ELSE cfg.GoogleAPIKey)
    ELSE (IF env.openai # <<>> THEN env.openai ELSE cfg.OpenAIAPIKey)

\* C19 as stated: a credential is the first non-empty of the value typed in
\* this run, the environment variable and the config file, at every place one
\* is resolved: the listing that enter in viewProviderSelect starts is given
\* the environment variable when it and the config file are both set, and the
\* listing that follows a typed key is given the typed key.
C19_CredentialOrder ==
    [][/\ EnterProviderSelect =>
             \A cmd \in pending' \ pending :
                cmd.type = "listModels" => cmd.key = StatedKey(m.providerIndex)
       /\ EnterApiKeyInput =>
             \A cmd \in pending' \ pending :
                cmd.type = "listModels" => cmd.key = m.inputs[1].value
      ]_vars

\* C20 as stated: whenever enter on the AI entry starts a generation, the
\* prompt given to it is the list's filter text at that moment, after any
\* typing, esc and navigation.
C20_PromptIsFilterText ==
    [][EnterListAi => ch'.prompt = m.list.filterText]_vars

\* the key message of the printable character c arrives in viewList
CharKeyList(c) == RuneListKey(c) \/ (c = "q" /\ QList)

\* a quit is asked for in this step
QuitAsked == QuitMsg \in pending' /\ QuitMsg \notin pending

PromptOf(r, p) == IF r = AiRecipe THEN RUN_PROMPT ELSE p.Name \o <<":", " ">>

\* the form of model mm is the form of its selected recipe
FormOfSelected(mm) ==
    /\ Len(mm.selectedRecipe) = 1
    /\ Len(mm.inputs) = Len(mm.selectedRecipe[1].Parameters)
    /\ \A i \in 1..Len(mm.inputs) :
          mm.inputs[i].prompt =
             PromptOf(mm.selectedRecipe[1], mm.selectedRecipe[1].Parameters[i])
    /\ 0 <= mm.focusIndex /\ mm.focusIndex < Len(mm.inputs)

\* C22 as stated: whenever the state is viewInput a selected recipe exists,
\* there is one field per parameter of it, field i prompting for parameter i,
\* and 0 <= focusIndex < number of fields; and from one viewInput state to the
\* next the number of fields does not change.
C22_FormMatchesRecipe ==
    [][/\ m'.state = "viewInput" => FormOfSelected(m')
       /\ (m.state = "viewInput" /\ m'.state = "viewInput") =>
             Len(m'.inputs) = Len(m.inputs)
      ]_vars

C22_Witness ==
    /\ m.state = "viewInput"
    /\ m.selectedRecipe = <<R_diff>>
    /\ Len(m.inputs) = 2
    /\ m.focusIndex = 1
    /\ m.inputs[1].value = <<"a">>

\* the focus index after k advances from f over n fields
RECURSIVE Advances(_, _, _)
Advances(f, n, k) == IF k = 0 THEN f ELSE Advances(MoveFocus(f, n, 1), n, k - 1)

\* the texts of the fields of a form
Texts(ins) == [i \in 1..Len(ins) |-> ins[i].value]

\* C23: in viewInput tab and down move the focus to the next field and from
\* the last to the first, shift+tab and up to the previous field and from the
\* first to the last; an advance then a retreat, and as many advances as there
\* are fields, give the focus index back; the keys change no field's text,
\* set no final command, ask for no quit and keep the state.
C23_FocusIsCyclic ==
    [][m.state = "viewInput" =>
         LET n == Len(m.inputs)
             f == m.focusIndex
         IN  /\ MoveFocus(MoveFocus(f, n, 1), n, 0 - 1) = f
             /\ Advances(f, n, n) = f
             /\ \A k \in {"tab", "down"} :
                   NavFormKey(k) => m'.focusIndex = (f + 1) % n
             /\ \A k \in {"shift+tab", "up"} :
                   NavFormKey(k) => m'.focusIndex = (f + n - 1) % n
             /\ NavForm =>
                   /\ Texts(m'.inputs) = Texts(m.inputs)
                   /\ m'.finalCmd = m.finalCmd
                   /\ m'.state = "viewInput"
                   /\ ~QuitAsked
                   /\ \A i \in 1..n : m'.inputs[i].focus <=> (i = m'.focusIndex + 1)
      ]_vars

C23_Witness ==
    /\ m.state = "viewInput"
    /\ Len(m.inputs) = 3
    /\ m.focusIndex = 2
    /\ m.inputs[3].focus
    /\ keys = 2

\* C24: enter in viewInput with the focus before the last field moves the
\* focus on by exactly one field, blurring the field it leaves, and changes
\* no field's text, sets no final command and asks for no quit; enter with
\* the focus on the last field is the one that sets the final command and
\* asks for the quit.
C24_EnterAdvancesBeforeLast ==
    [][(EnterInputAdvance \/ EnterInputSubmit) =>
         LET f == m.focusIndex
         IN  IF f # Len(m.inputs) - 1
             THEN /\ m'.focusIndex = f + 1
                  /\ Texts(m'.inputs) = Texts(m.inputs)
                  /\ ~m'.inputs[f + 1].focus
                  /\ m'.inputs[f + 2].focus
                  /\ m'.finalCmd = m.finalCmd
                  /\ m'.state = "viewInput"
                  /\ ~QuitAsked
             ELSE /\ m'.finalCmd # <<>>
                  /\ QuitMsg \in pending'
      ]_vars

C24_Witness ==
    /\ m.state = "viewInput"
    /\ Len(m.inputs) = 3
    /\ m.focusIndex = 1
    /\ m.inputs[1].value = <<"a">>
    /\ m.inputs[2].focus
    /\ m.finalCmd = <<>>
    /\ keys = 3

\* the name of the task selected in list l, if a task is selected
SelectedName(l) ==
    IF SelectedItem(l) # <<>> /\ SelectedItem(l)[1].kind = "recipe"
    THEN <<SelectedItem(l)[1].name>> ELSE <<>>

\* the fetches this step has started
Started == fetches' (-) fetches

\* C25 as stated: an event handled in viewList starts a fetch for the selected
\* task when that task's name differs from the name selected before, and
\* starts none when the name is the same, except that a resize starts exactly
\* one fetch for the selected task.
C25_FetchOnNameChange ==
    [][(m.state = "viewList" /\ m'.state = "viewList" /\ ~RecipeContent) =>
         LET was == SelectedName(m.list)
             now == SelectedName(m'.list)
         IN  IF WindowSize \/ (now # <<>> /\ now # was)
             THEN now # <<>> => Started = Copies(now[1], 1)
             ELSE Started = EmptyBag
      ]_vars

\* the states whose form has text fields a pasteMsg writes to
TextStates == {"viewInput", "viewApiKeyInput", "viewModelInput"}

\* C26 as stated: a pasteMsg with a non-empty text puts the text into the
\* focused field at the cursor, the characters before and after the cursor
\* kept, moves the cursor past the inserted text and changes no other field;
\* a picker that exits with an error, and an empty output, change no field
\* and not the focus index.
C26_PasteAtCursor ==
    [][/\ \A msg \in {p \in pending : p.type = "paste"} :
             (Paste /\ msg \notin pending' /\ m.state \in TextStates) =>
                LET i == m.focusIndex + 1
                    t == m.inputs[i]
                IN  IF Len(msg.text) > 0
                    THEN /\ m'.inputs[i].value =
                               SubSeq(t.value, 1, t.pos) \o msg.text
                               \o SubSeq(t.value, t.pos + 1, Len(t.value))
                         /\ m'.inputs[i].pos = t.pos + Len(msg.text)
                         /\ \A j \in 1..Len(m.inputs) : j # i => m'.inputs[j] = m.inputs[j]
                         /\ m'.focusIndex = m.focusIndex
                    ELSE m'.inputs = m.inputs /\ m'.focusIndex = m.focusIndex
       /\ PickerExit => m' = m
      ]_vars

\* main takes a step
MainStep == main' # main

\* C27: main acts only after the loop has returned and leaves the model as it
\* is; with a final command it either becomes the program found for the
\* command's first word, given the whole final command as its arguments, or
\* exits with a non-zero code; with no final command it runs nothing and
\* returns; and after either nothing more happens: no retry, no UI.
C27_HandoffOnce ==
    [][/\ main.pc = "run"
       /\ MainStep =>
             /\ ~running
             /\ m' = m
             /\ IF Len(m.finalCmd) > 0
                THEN \/ /\ main'.pc = "replaced"
                        /\ main'.binary = <<"/">> \o m.finalCmd[1]
                        /\ main'.argv = m.finalCmd
                     \/ /\ main'.pc = "exit"
                        /\ main'.code # 0
                ELSE main' = Exited(0)
      ]_vars

C27_Witness ==
    /\ main.pc = "replaced"
    /\ main.argv = <<JUST, T_hello, <<"a">>>>
    /\ main.binary = <<"/">> \o JUST
    /\ ~running

\* a generation is started in this step: the model's channel is a new one, or
\* the former one has joined the goroutines nothing waits for
GenStarted == ch'.pc = "start" /\ (ch' # ch \/ ch \in orphans' \ orphans)

\* a model listing is started in this step
ListingStarted == \E cmd \in pending' \ pending : cmd.type = "listModels"

\* C28: a generation is started only by enter on the AI entry of the list, and
\* a model listing only by enter in viewProviderSelect or on a typed key; the
\* handling of a stream error, of a failed listing, and the keys that end the
\* negotiation (enter and esc in viewModelSelect and viewModelInput) start
\* neither.
C28_NoAutomaticRetry ==
    [][/\ GenStarted => EnterListAi
       /\ ListingStarted => (EnterProviderSelect \/ EnterApiKeyInput)
       /\ (\/ StreamResult
           \/ ListModelsFailed
           \/ EnterModelInput
           \/ EscForm
           \/ ModelSelectKey(<<"enter">>)
           \/ ModelSelectKey(<<"esc">>)) => ~GenStarted /\ ~ListingStarted
      ]_vars

C28_Witness ==
    /\ m.state = "viewList"
    /\ ch.sent # <<>>
    /\ ch.sent[1] = MissingKeyErr
    /\ ch.pc = "closed"
    /\ cfg.GoogleAPIKey = <<"a">>
    /\ ListModelsCmds = {}
    /\ orphans = {}
    /\ keys = 5

\* C29 as stated: in viewList, esc while the filter is edited clears the
\* filter and asks for no quit; esc and q while it is not edited ask for the
\* quit and the program holds no command; q while it is edited joins the
\* filter text and asks for no quit.
C29_EscAndQInList ==
    [][/\ (EscList /\ SettingFilter(m.list)) =>
             /\ m'.state = "viewList"
             /\ m'.list.filterText = <<>>
             /\ m'.list.filterState = "unfiltered"
             /\ ~QuitAsked
       /\ ((EscList \/ QList) /\ ~SettingFilter(m.list)) =>
             /\ QuitMsg \in pending'
             /\ m'.finalCmd = <<>>
       /\ RuneListKey("q") =>
             /\ m'.state = "viewList"
             /\ m'.list.filterText = Append(m.list.filterText, "q")
             /\ ~QuitAsked
      ]_vars

\* C30 as stated: in viewList the keys j and k move the selection as down and
\* up do, and leave the filter text and the filter state as they were.
C30_JKNavigate ==
    [][/\ RuneListKey("j") =>
             /\ m'.list.cursor = ListKey(m.list, <<"down">>).cursor
             /\ m'.list.filterText = m.list.filterText
             /\ m'.list.filterState = m.list.filterState
       /\ RuneListKey("k") =>
             /\ m'.list.cursor = ListKey(m.list, <<"up">>).cursor
             /\ m'.list.filterText = m.list.filterText
             /\ m'.list.filterState = m.list.filterState
      ]_vars

\* a generation is in progress: the state is viewGenerating and a
\* waitForStream is outstanding on the model's channel
GenInProgress == m.state = "viewGenerating" /\ ch.waits > 0

\* the messages of the model's channel that waitForStream has received
Consumed(c) == SubSeq(c.sent, 1, Len(c.sent) - Len(c.buf))

\* C31: while a generation is in progress every step that is not the handling
\* of one of its stream messages keeps the state at viewGenerating and starts
\* neither a generation nor a model listing, and no listing is in flight; the
\* handling of a stream message takes exactly the head of the channel and
\* leaves one wait after a chunk and none after an error or a done; at most one
\* wait is outstanding on the model's channel and none on a channel of an
\* earlier generation; the text accumulated is the chunks received so far,
\* each once and in the order sent.
C31_OneConsumer ==
    /\ [](/\ ch.waits <= 1
          /\ \A o \in orphans : o.waits = 0
          /\ GenInProgress => ListModelsCmds = {}
          /\ GenInProgress => m.streamContent = ChunkText(Consumed(ch)))
    /\ [][/\ (GenInProgress /\ ~StreamResult) =>
                /\ m'.state = "viewGenerating"
                /\ ~GenStarted
                /\ ~ListingStarted
          /\ StreamResult =>
                /\ ch'.buf = Tail(ch.buf)
                /\ ch'.sent = ch.sent
                /\ ch'.waits = IF Head(ch.buf).kind = "chunk" THEN 1 ELSE 0
         ]_vars

C31_Witness ==
    /\ GenInProgress
    /\ m.streamContent = ChunkAt(1)
    /\ ch.buf # <<>>
    /\ Head(ch.buf).kind = "chunk"
    /\ keys >= 2
    /\ QuitMsg \notin pending

\* every goroutine of a generation has closed its channel
AllProducersDone == ch.pc = "closed" /\ orphans = {}

\* C32: provided the provider call returns, the goroutines are scheduled and
\* the loop handles the messages that reach it, from some point on every
\* generation's goroutine has closed its channel, or the program has stopped:
\* no goroutine stays blocked on a send, neither on a chunk while the channel
\* is full nor on the done that follows an error the consumer has received.
C32_ProducerTerminates == <>[](~running \/ AllProducersDone)

C32_Witness ==
    /\ running
    /\ ch.pc = "sendchunk"
    /\ ~HasRoom(ch)
    /\ ChunksSent(ch) >= ChanCap
    /\ QuitMsg \notin pending

\* the completion messages on their way to the loop
Completions == {p \in pending : p.type = "aiCompletion"}

\* C33: a generation starts with an empty accumulation buffer and a new, empty
\* channel; no wait is outstanding on the channel of an earlier generation, so
\* none of its messages is received any more; the text accumulated during a
\* generation, the text of its completion message and the text that seeds the
\* form are the chunks sent on that generation's channel and nothing else.
C33_FreshBuffer ==
    /\ [](/\ \A o \in orphans : o.waits = 0
          /\ m.state = "viewGenerating" /\ ch.pc # "closed" =>
                m.streamContent = ChunkText(Consumed(ch))
          /\ \A p \in Completions : p.text = ChunkText(ch.sent))
    /\ [][/\ EnterListAi =>
                /\ m'.streamContent = <<>>
                /\ ch'.buf = <<>>
                /\ ch'.sent = <<>>
          /\ AiCompletion => m'.inputs[1].value = ChunkText(ch.sent)
         ]_vars

C33_Witness ==
    /\ m.state = "viewGenerating"
    /\ m.streamContent = ChunkAt(1)
    /\ ChunkText(ch.sent) = ChunkAt(1)
    /\ \E o \in orphans :
          /\ o.errk = "AI generation failed"
          /\ ChunksSent(o) >= 1
          /\ o.pc = "senddone"

\* C34 as stated: when the last detail result in flight has been delivered, the
\* detail pane holds the content fetched for the task that is selected.
C34_PaneShowsSelected ==
    [][(/\ RecipeContent
        /\ fetches' = EmptyBag
        /\ m'.state = "viewList"
        /\ SelectedName(m'.list) # <<>>) =>
            m'.viewport = TaskContent(SelectedName(m'.list)[1])
      ]_vars

\* C35 as stated: in viewList with the AI entry selected the detail pane, once
\* it has been set, holds the AI hint and never a task's description.
C35_AiEntryShowsHint ==
    (m.state = "viewList" /\ SelectedItem(m.list) = <<AiItem>>) =>
        m.viewport \in {HintContent, NoContent}

\* the pasteMsg handled in this step
PasteHandled == CHOOSE p \in pending \ pending' : p.type = "paste"

\* C36: in the states with text fields the focus index is the index of a
\* field, and viewApiKeyInput and viewModelInput have one field with the
\* focus on it; a pasteMsg that arrives in one of these states with a
\* non-empty text changes the field focused at its arrival and no other, and
\* one that arrives in another state, or with an empty text, changes no field
\* and no other part of the form.
C36_PasteTargetsFocusedField ==
    /\ [](/\ m.state \in TextStates => m.focusIndex \in 0..(Len(m.inputs) - 1)
          /\ m.state \in {"viewApiKeyInput", "viewModelInput"} =>
                Len(m.inputs) = 1 /\ m.focusIndex = 0)
    /\ [][Paste =>
            /\ m'.state = m.state
            /\ m'.focusIndex = m.focusIndex
            /\ Len(m'.inputs) = Len(m.inputs)
            /\ IF m.state \in TextStates /\ Len(PasteHandled.text) > 0
               THEN \A i \in 1..Len(m.inputs) :
                       m'.inputs[i] =
                          IF i = m.focusIndex + 1
                          THEN PasteInto(m.inputs[i], PasteHandled.text)
                          ELSE m.inputs[i]
               ELSE m'.inputs = m.inputs
         ]_vars

\* the picker's result is on its way while the form it was started from has
\* been left with esc and another form, with one field, has been opened
C36_Witness ==
    /\ \E p \in pending : p.type = "paste" /\ p.text = <<"b">>
    /\ m.state = "viewApiKeyInput"
    /\ m.selectedRecipe # <<>>
    /\ Len(m.inputs) = 1

\* the credential GenerateCommand resolves for a provider
GenerationKey(provider) == IF provider = "google" THEN GoogleKey ELSE OpenAIKey

\* C37 as stated: the credential given to the model listing that enter in
\* viewProviderSelect starts is the credential a generation resolves for the
\* same provider, for every content of the environment and the config file.
C37_ListingUsesGenerationKey ==
    [][EnterProviderSelect =>
         \A cmd \in pending' \ pending :
            cmd.type = "listModels" => cmd.key = GenerationKey(cmd.provider)
      ]_vars

\* the provider the credentials alone select: "" when neither has one
ProviderByCredentials ==
    IF GoogleKey # <<>> THEN "google"
    ELSE IF OpenAIKey # <<>> THEN "openai" ELSE ""

\* C38: when a generation's goroutine resolves its provider, the provider is
\* Google if a Google credential is found in the environment or the config
\* file, else OpenAI if an OpenAI credential is, else none and the error is
\* MISSING_API_KEY; the provider highlighted in viewProviderSelect and the
\* models saved in the config file have no part in the choice.
C38_ProviderByCredentials ==
    [][ProducerStart =>
         /\ ch'.provider = ProviderByCredentials
         /\ ProviderByCredentials = "" <=>
               (ch'.pc = "senderr" /\ ch'.errk = "MISSING_API_KEY")
         /\ ProviderByCredentials # "" => ch'.pc = "streaming"
      ]_vars

\* a generation with Google although OpenAI is highlighted and has the only
\* saved model
C38_Witness ==
    /\ ch.provider = "google"
    /\ m.providerIndex = 1
    /\ cfg.OpenAIModel # <<>>
    /\ cfg.GoogleModel = <<>>
    /\ OpenAIKey # <<>>

\* the fields of the config file this step has changed
FieldsChanged == {f \in DOMAIN cfg : cfg'[f] # cfg[f]}

\* the step saves a key or a model name
Persists ==
    \/ EnterApiKeyInput
    \/ EnterModelInput
    \/ ModelSelectKey(<<"enter">>)

\* C39 as stated: a step that saves a key or a model name for the highlighted
\* provider changes at most that one field of the config file; the three other
\* fields keep the values the file had.
C39_PersistChangesOneField ==
    [][Persists =>
         FieldsChanged \subseteq
            (IF EnterApiKeyInput
             THEN (IF m.providerIndex = 0 THEN {"GoogleAPIKey"} ELSE {"OpenAIAPIKey"})
             ELSE (IF m.providerIndex = 0 THEN {"GoogleModel"} ELSE {"OpenAIModel"}))
      ]_vars

\* the step reports a failed save: the state and the fields stay, a banner is
\* set, no listing is started and the file is as it was
SaveFailureReported ==
    /\ m'.state = m.state
    /\ m'.inputs = m.inputs
    /\ m'.err # ""
    /\ ~ListingStarted
    /\ cfg' = cfg

\* C40 as stated: when the key typed in viewApiKeyInput is not stored by the
\* step, or the model typed in viewModelInput or selected in viewModelSelect is
\* not, the failure is reported: the state and the typed value are kept and an
\* error banner is set, and no listing is started.
C40_SaveFailureReported ==
    [][/\ (EnterApiKeyInput /\ m.inputs[1].value # <<>>
              /\ (IF m.providerIndex = 0 THEN cfg'.GoogleAPIKey ELSE cfg'.OpenAIAPIKey)
                 # m.inputs[1].value) => SaveFailureReported
       /\ (EnterModelInput /\ m.inputs[1].value # <<>>
              /\ ModelOf(cfg') # m.inputs[1].value) => SaveFailureReported
       /\ (ModelSelectKey(<<"enter">>) /\ SelectedItem(m.modelList) # <<>>
              /\ ModelOf(cfg') # SelectedItem(m.modelList)[1].name) => SaveFailureReported
      ]_vars

====
